---- MODULE Spec2Model ----
(***************************************************************************)
(* Tool registries, dispatch turns and CLI front ends of the terminator    *)
(* TypeScript examples: test-agent.js, simple-agent.js, the interactive    *)
(* ai-agent, the simple vision artist and vision-artist.js.                *)
(*                                                                         *)
(* The desktop SDK ("facade") and the language-model runtime are external: *)
(* an environment record says which facade operations fail in one          *)
(* invocation and what the successful ones return.                         *)
(***************************************************************************)
EXTENDS Integers, Sequences, FiniteSets, TLC

VARIABLES
  script,      \* which program of the repository is running ("tools": a bare registry)
  pc,          \* control position of that program
  call,        \* the tool invocation under way or last made: [reg, tool, args, env]
  out,         \* what that invocation produced: [result, calls, threw]
  input,       \* the user input (or argv) the program is working on
  batch,       \* results of the tool calls of the current dispatch turn
  chunks,      \* text fragments of the model's stream not yet consumed
  idx,         \* position of the reporting loop in the batch
  transcript,  \* lines written to the terminal since the last input was read
  modelCalls,  \* requests sent to the language model since the last input
  execRuns,    \* execute functions the program started since the last input
  facadeCalls, \* facade operations attempted since the last input, in order
  exitCode,    \* process exit status: -1 while running
  history,     \* the ai-agent's conversationHistory
  promises     \* element-explorer's OCR race: the two promises and the race itself

vars == <<script, pc, call, out, input, batch, chunks, idx, transcript,
          modelCalls, execRuns, facadeCalls, exitCode, history, promises>>

(***************************************************************************)
(* Bounds of the model.                                                    *)
(***************************************************************************)
MaxElems == 6
MaxBatch == 2
MaxChunks == 1
MaxHistory == 2

(***************************************************************************)
(* The facade environment of one invocation.                               *)
(***************************************************************************)
None == [none |-> TRUE]

\* No promise of the OCR race exists.
NoPromises == [ocr |-> "none", timeout |-> "none", race |-> "none", first |-> "none",
               handled |-> {}, unhandled |-> {}]

\* error.message of the exception a failing facade operation raises
FacadeMessage(op) == op \o " failed"

Screenshot == [width |-> 1920, height |-> 1080, bytes |-> 2048]

\* fail: the facade (or file-system / model) operations that fail in this
\* invocation; n: how many elements a locator matches; text: what OCR reads;
\* exit, stdout, stderr: what a shell command yields.
Env(f, n, x, so, se) ==
  [fail |-> f, n |-> n, text |-> "Hello", exit |-> x, stdout |-> so, stderr |-> se]

\* Index of the first operation of the sequence ops that fails, 0 when none does.
FirstFail(ops, fail) ==
  IF \E i \in 1..Len(ops) : ops[i] \in fail
  THEN CHOOSE i \in 1..Len(ops) :
         /\ ops[i] \in fail
         /\ \A j \in 1..(i - 1) : ops[j] \notin fail
  ELSE 0

\* The operations actually attempted: everything up to the first failure.
Attempted(ops, fail) ==
  IF FirstFail(ops, fail) = 0 THEN ops ELSE SubSeq(ops, 1, FirstFail(ops, fail))

\* The argument object {} and the merge of two objects ({...r, ...s}).
NoArgs == [f \in {} |-> TRUE]
Merge(r, s) ==
  [k \in (DOMAIN r) \cup (DOMAIN s) |-> IF k \in DOMAIN s THEN s[k] ELSE r[k]]

Has(r, f) == f \in DOMAIN r
Get(r, f, d) == IF f \in DOMAIN r THEN r[f] ELSE d

Min(a, b) == IF a < b THEN a ELSE b

\* What an execute function hands back: its return value, the facade
\* operations it attempted, and whether an exception left it instead.
Returned(r, cs) == [result |-> r, calls |-> cs, threw |-> FALSE]
Thrown(cs, msg) == [result |-> [thrown |-> msg], calls |-> cs, threw |-> TRUE]

\* The same sequence of operations without the catch: the exception leaves.
TryOpsNoCatch(ops, fail, ok) ==
  IF FirstFail(ops, fail) = 0
  THEN Returned(ok, ops)
  ELSE Thrown(Attempted(ops, fail), FacadeMessage(ops[FirstFail(ops, fail)]))

\* try { ops...; return ok } catch (error) { return {success:false, error: error.message} }
TryOps(ops, fail, ok) ==
  IF FirstFail(ops, fail) = 0
  THEN Returned(ok, ops)
  ELSE Returned([success |-> FALSE,
                 error |-> FacadeMessage(ops[FirstFail(ops, fail)])],
                Attempted(ops, fail))

(***************************************************************************)
(* The JavaScript engine evaluating  Function(`return (${expression})`)()  *)
(* on the expressions the model feeds it.                                  *)
(***************************************************************************)
Exprs == {"2+2", "15", "15 * 42 + 8", "2+", "undefined"}

JsEval(e) ==
  CASE e = "2+2" -> [kind |-> "value", v |-> 4]
    [] e = "15" -> [kind |-> "value", v |-> 15]
    [] e = "15 * 42 + 8" -> [kind |-> "value", v |-> 638]
    [] e = "undefined" -> [kind |-> "undefined", v |-> 0]
    [] OTHER -> [kind |-> "throws", v |-> 0]

Selectors == {"name:Calculator", "name:DoesNotExist"}

\* el.name() || 'Unknown' of the i-th matched element
ElemName(i) == IF i % 2 = 0 THEN "Unknown" ELSE "Button" \o ToString(i)

SliceLimit == 5
DefaultLimit == 10

(***************************************************************************)
(* test-agent.js / simple-agent.js: the registry  tools.                   *)
(***************************************************************************)
TaScreenshot(args, env) ==
  LET withOCR == Get(args, "withOCR", FALSE)
      shot == "Screenshot taken (" \o ToString(Screenshot.width) \o "x"
                \o ToString(Screenshot.height) \o ")"
  IN IF withOCR
     THEN TryOps(<<"captureScreen", "ocrScreenshot">>, env.fail,
                 [success |-> TRUE,
                  message |-> shot \o " with " \o ToString(Len(env.text))
                                \o " characters of text extracted",
                  extractedText |-> env.text])
     ELSE TryOps(<<"captureScreen">>, env.fail,
                 [success |-> TRUE, message |-> shot])

TaClickElement(args, env) ==
  TryOps(<<"locator", "first", "click">>, env.fail,
         [success |-> TRUE, message |-> "Clicked on " \o args.selector])

\* findElements treating an empty match set as an error
TaFindElementsEmptyFails(args, env) ==
  IF env.n = 0 /\ "all" \notin env.fail
  THEN Returned([success |-> FALSE, error |-> "No elements found"], <<"locator", "all">>)
  ELSE TryOps(<<"locator", "all">> \o (IF env.n > 0 THEN <<"elementProps">> ELSE <<>>),
              env.fail,
              [success |-> TRUE,
               count |-> env.n,
               elements |-> [i \in 1..Min(env.n, SliceLimit) |->
                               [name |-> ElemName(i), role |-> "Button",
                                text |-> "", visible |-> TRUE]],
               message |-> "Found " \o ToString(env.n) \o " elements matching "
                             \o args.selector])

TaFindElements(args, env) ==
  TryOps(<<"locator", "all">> \o (IF env.n > 0 THEN <<"elementProps">> ELSE <<>>),
         env.fail,
         [success |-> TRUE,
          count |-> env.n,
          elements |-> [i \in 1..Min(env.n, SliceLimit) |->
                          [name |-> ElemName(i), role |-> "Button",
                           text |-> "", visible |-> TRUE]],
          message |-> "Found " \o ToString(env.n) \o " elements matching "
                        \o args.selector])

TaOpenApp(args, env) ==
  TryOps(<<"openApplication", "elementProps">>, env.fail,
         [success |-> TRUE,
          message |-> "Opened " \o args.appName,
          app |-> [name |-> args.appName, role |-> "Window"]])

TaTypeText(args, env) ==
  TryOps(<<"focusedElement", "typeText">>, env.fail,
         [success |-> TRUE, message |-> "Typed: \"" \o args.text \o "\""])

\* result.toString() throws on undefined, inside the try; every exception
\* becomes the fixed error text.
\* calculate without its try/catch
TaCalculateNoCatch(args, env) ==
  LET r == JsEval(args.expression)
  IN IF r.kind = "value"
     THEN Returned([success |-> TRUE,
                    result |-> ToString(r.v),
                    message |-> args.expression \o " = " \o ToString(r.v)],
                   <<>>)
     ELSE Thrown(<<>>, "Unexpected end of input")

TaCalculate(args, env) ==
  LET r == JsEval(args.expression)
  IN IF r.kind = "value"
     THEN Returned([success |-> TRUE,
                    result |-> ToString(r.v),
                    message |-> args.expression \o " = " \o ToString(r.v)],
                   <<>>)
     ELSE Returned([success |-> FALSE,
                    error |-> "Invalid mathematical expression"], <<>>)

TaRunCommand(args, env) ==
  TryOps(<<"runCommand">>, env.fail,
         [success |-> TRUE,
          exitCode |-> env.exit,
          output |-> env.stdout,
          error |-> env.stderr,
          message |-> "Command executed with exit code " \o ToString(env.exit)])

TestAgentToolNames ==
  {"screenshot", "clickElement", "findElements", "openApp", "typeText",
   "calculate", "runCommand"}

TestAgentExecute(tool, args, env) ==
  CASE tool = "screenshot" -> TaScreenshot(args, env)
    [] tool = "clickElement" -> TaClickElement(args, env)
    [] tool = "findElements" -> TaFindElements(args, env)
    [] tool = "openApp" -> TaOpenApp(args, env)
    [] tool = "typeText" -> TaTypeText(args, env)
    [] tool = "calculate" -> TaCalculate(args, env)
    [] tool = "runCommand" -> TaRunCommand(args, env)

\* simple-agent.js declares the same seven tools with the same bodies
\* (without the progress lines).
SimpleAgentExecute(tool, args, env) == TestAgentExecute(tool, args, env)

\* Arguments that satisfy a tool's zod schema.
TestAgentArgs(tool) ==
  CASE tool = "screenshot" -> {[withOCR |-> TRUE], [withOCR |-> FALSE], NoArgs}
    [] tool = "clickElement" -> {[selector |-> s] : s \in Selectors}
    [] tool = "findElements" -> {[selector |-> "role:Button"]}
    [] tool = "openApp" -> {[appName |-> "notepad"]}
    [] tool = "typeText" -> {[text |-> "hello world"]}
    [] tool = "calculate" -> {[expression |-> e] : e \in Exprs}
    [] tool = "runCommand" -> {[command |-> "dir"]}

\* The facade operations a tool can reach, and the environments in which
\* it is exercised.
TestAgentOps(tool) ==
  CASE tool = "screenshot" -> {"captureScreen", "ocrScreenshot"}
    [] tool = "clickElement" -> {"first", "click"}
    [] tool = "findElements" -> {"all", "elementProps"}
    [] tool = "openApp" -> {"openApplication"}
    [] tool = "typeText" -> {"focusedElement", "typeText"}
    [] tool = "calculate" -> {}
    [] tool = "runCommand" -> {"runCommand"}

(***************************************************************************)
(* The interactive ai-agent: the registry  tools.  Its results carry no    *)
(* success field: {status:'success', ...} or a plain payload on success,   *)
(* {error: ...} on failure.                                                *)
(***************************************************************************)
\* array.slice(0, limit).length for an array of len elements
JsSliceLen(len, limit) ==
  IF limit < 0
  THEN (IF len + limit > 0 THEN len + limit ELSE 0)
  ELSE Min(limit, len)

\* A catch that also sets a status next to the error.
AiTryWithStatus(ops, fail, ok, prefix, extra) ==
  IF FirstFail(ops, fail) = 0
  THEN Returned(ok, ops)
  ELSE Returned(Merge([status |-> "error",
                       error |-> prefix \o FacadeMessage(ops[FirstFail(ops, fail)])],
                      extra),
                Attempted(ops, fail))

\* try { ops...; return ok } catch (error) { return { error: `<prefix>${error.message}` } }
AiTry(ops, fail, ok, prefix, extra) ==
  IF FirstFail(ops, fail) = 0
  THEN Returned(ok, ops)
  ELSE Returned(Merge([error |-> prefix \o FacadeMessage(ops[FirstFail(ops, fail)])],
                      extra),
                Attempted(ops, fail))

AiScreenshot(args, env) ==
  LET withOCR == Get(args, "withOCR", FALSE)
      save == Has(args, "savePath") /\ args.savePath # ""
      ops == <<"captureScreen">>
               \o (IF save THEN <<"writeFile">> ELSE <<>>)
               \o (IF withOCR THEN <<"ocrScreenshot">> ELSE <<>>)
      base == [status |-> "success",
               message |-> "Screenshot taken successfully",
               size |-> ToString(Screenshot.width) \o "x" \o ToString(Screenshot.height)]
      saved == IF save THEN [savedTo |-> args.savePath] ELSE NoArgs
      ocr == IF withOCR THEN [ocrText |-> env.text, textLength |-> Len(env.text)]
             ELSE NoArgs
  IN AiTry(ops, env.fail, Merge(Merge(base, saved), ocr), "Screenshot failed: ", NoArgs)

AiClickElement(args, env) ==
  LET action == Get(args, "action", "click")
  IN AiTry(<<"locator", "first", action>>, env.fail,
           [status |-> "success",
            message |-> action \o " performed successfully",
            result |-> [method |-> action]],
           "Click failed: ", NoArgs)

AiFindElements(args, env) ==
  LET limit == Get(args, "limit", DefaultLimit)
      shown == JsSliceLen(env.n, limit)
  IN AiTry(<<"locator", "all">> \o (IF shown > 0 THEN <<"elementProps">> ELSE <<>>),
           env.fail,
           [status |-> "success",
            selector |-> args.selector,
            count |-> env.n,
            returned |-> shown,
            elements |-> [i \in 1..shown |->
                            [name |-> ElemName(i), role |-> "Button", text |-> "",
                             visible |-> TRUE, enabled |-> TRUE]]],
           "Element discovery failed: ", NoArgs)

AiAppControl(args, env) ==
  LET action == args.action
      named == Has(args, "appName") /\ args.appName # ""
  IN CASE action = "launch" ->
            IF ~named THEN Returned([error |-> "App name required for launch"], <<>>)
            ELSE AiTry(<<"openApplication", "elementProps">>, env.fail,
                       [status |-> "success",
                        message |-> "Launched " \o args.appName,
                        action |-> "launch",
                        app |-> [name |-> args.appName, role |-> "Window"]],
                       "App control failed: ", NoArgs)
       [] action = "list" ->
            AiTry(<<"applications">> \o (IF env.n > 0 THEN <<"elementProps">> ELSE <<>>),
                  env.fail,
                  [status |-> "success",
                   action |-> "list",
                   count |-> env.n,
                   applications |-> [i \in 1..Min(env.n, DefaultLimit) |->
                                       [name |-> ElemName(i), role |-> "Window"]]],
                  "App control failed: ", NoArgs)
       [] action \in {"focus", "activate"} ->
            IF ~named THEN Returned([error |-> "App name required for focus/activate"], <<>>)
            ELSE AiTry(IF action = "activate" THEN <<"activateApplication">>
                       ELSE <<"application", "focus">>,
                       env.fail,
                       [status |-> "success",
                        message |-> (IF action = "activate" THEN "Activated "
                                     ELSE "Focused ") \o args.appName,
                        action |-> action],
                       "App control failed: ", NoArgs)
       [] OTHER -> Returned([error |-> "Invalid action"], <<>>)

AiOcrTool(args, env) ==
  LET path == Has(args, "imagePath") /\ args.imagePath # ""
  IN AiTry(IF path THEN <<"ocrImagePath">> ELSE <<"captureScreen", "ocrScreenshot">>,
           env.fail,
           [status |-> "success",
            source |-> (IF path THEN args.imagePath ELSE "screenshot"),
            textLength |-> Len(env.text),
            wordCount |-> 1,
            text |-> env.text,
            fullText |-> env.text],
           "OCR failed: ", NoArgs)

AiTextInput(args, env) ==
  LET sel == Has(args, "selector") /\ args.selector # ""
      clip == Get(args, "useClipboard", FALSE)
  IN AiTry((IF sel THEN <<"locator", "first">> ELSE <<"focusedElement">>)
             \o <<"typeText">>,
           env.fail,
           [status |-> "success",
            message |-> "Typed \"" \o args.text \o "\"",
            method |-> (IF clip THEN "clipboard" ELSE "keyboard"),
            target |-> (IF sel THEN args.selector ELSE "focused element")],
           "Text input failed: ", NoArgs)

\* The Calculator launch has a try/catch of its own: its failure is recorded
\* as appError and the computed result is returned all the same.
AiCalculator(args, env) ==
  LET r == JsEval(args.expression)
      useApp == Get(args, "useApp", FALSE)
      base == [result |-> ToString(r.v), expression |-> args.expression,
               method |-> "programmatic"]
      ops == <<"openApplication", "elementProps">>
  IN IF r.kind # "value"
     THEN Returned([error |-> "Invalid mathematical expression",
                    expression |-> args.expression], <<>>)
     ELSE IF ~useApp THEN Returned(base, <<>>)
     ELSE IF FirstFail(ops, env.fail) = 0
     THEN Returned(Merge(base,
                         [appDemo |-> "Calculator app launched for demonstration",
                          method |-> "app + programmatic",
                          app |-> [name |-> "calc", role |-> "Window"]]),
                   ops)
     ELSE Returned(Merge(base, [appError |-> "Could not launch Calculator app"]),
                   Attempted(ops, env.fail))

AiFileManager(args, env) ==
  LET action == args.action
      path == Has(args, "filepath") /\ args.filepath # ""
      body == Has(args, "content") /\ args.content # ""
      dir == IF Has(args, "directory") /\ args.directory # "" THEN args.directory ELSE "."
  IN CASE action = "read" ->
            IF ~path THEN Returned([error |-> "Filepath required for read action"], <<>>)
            ELSE IF "readFile" \in env.fail
            THEN Returned([error |-> FacadeMessage("readFile"), action |-> action],
                          <<"readFile">>)
            ELSE Returned([action |-> "read", filepath |-> args.filepath,
                           content |-> env.text], <<"readFile">>)
       [] action = "write" ->
            IF ~path \/ ~body
            THEN Returned([error |-> "Filepath and content required for write action"], <<>>)
            ELSE IF "writeFile" \in env.fail
            THEN Returned([error |-> FacadeMessage("writeFile"), action |-> action],
                          <<"writeFile">>)
            ELSE Returned([action |-> "write", filepath |-> args.filepath,
                           message |-> "File written successfully"], <<"writeFile">>)
       [] action = "list" ->
            IF "readdir" \in env.fail
            THEN Returned([error |-> FacadeMessage("readdir"), action |-> action],
                          <<"readdir">>)
            ELSE Returned([action |-> "list", directory |-> dir,
                           files |-> [i \in 1..env.n |-> "file" \o ToString(i)]],
                          <<"readdir">>)
       [] action = "open" ->
            IF ~path THEN Returned([error |-> "Filepath required for open action"], <<>>)
            ELSE IF "openFile" \in env.fail
            THEN Returned([error |-> FacadeMessage("openFile"), action |-> action],
                          <<"openFile">>)
            ELSE Returned([action |-> "open", filepath |-> args.filepath,
                           message |-> "File opened with default application"],
                          <<"openFile">>)
       [] OTHER -> Returned([error |-> "Invalid action"], <<>>)

AiWebTool(args, env) ==
  LET action == args.action
      hasUrl == Has(args, "url") /\ args.url # ""
  IN CASE action = "open" ->
            IF ~hasUrl THEN Returned([error |-> "URL required for open action"], <<>>)
            ELSE AiTry(<<"openUrl">>, env.fail,
                       [action |-> "open", url |-> args.url,
                        browser |-> Get(args, "browser", "default"),
                        message |-> "URL opened in browser"],
                       "Web tool failed: ", [action |-> action])
       [] action = "getCurrentBrowser" ->
            AiTry(<<"getCurrentBrowserWindow", "elementProps">>, env.fail,
                  [action |-> "getCurrentBrowser",
                   browser |-> [name |-> "Browser", role |-> "Window", text |-> ""]],
                  "Web tool failed: ", [action |-> action])
       [] OTHER -> Returned([error |-> "Invalid action"], <<>>)

AiCommandRunner(args, env) ==
  AiTry(<<"runCommand">>, env.fail,
        [status |-> "success",
         exitStatus |-> env.exit,
         stdout |-> env.stdout,
         stderr |-> env.stderr,
         command |-> [windows |-> Get(args, "windowsCommand", ""),
                      unix |-> Get(args, "unixCommand", "")]],
        "Command execution failed: ", NoArgs)

AiAgentToolNames ==
  {"screenshot", "clickElement", "findElements", "appControl", "ocrTool",
   "textInput", "calculator", "fileManager", "webTool", "commandRunner"}

AiAgentExecute(tool, args, env) ==
  CASE tool = "screenshot" -> AiScreenshot(args, env)
    [] tool = "clickElement" -> AiClickElement(args, env)
    [] tool = "findElements" -> AiFindElements(args, env)
    [] tool = "appControl" -> AiAppControl(args, env)
    [] tool = "ocrTool" -> AiOcrTool(args, env)
    [] tool = "textInput" -> AiTextInput(args, env)
    [] tool = "calculator" -> AiCalculator(args, env)
    [] tool = "fileManager" -> AiFileManager(args, env)
    [] tool = "webTool" -> AiWebTool(args, env)
    [] tool = "commandRunner" -> AiCommandRunner(args, env)

(***************************************************************************)
(* The simple vision artist: the registry  tools.                          *)
(***************************************************************************)
\* try { ops...; return ok } catch (error) { return {success:false, ...} },
\* where the capture directory is read first and an empty listing is a
\* failure of its own.
AnalyzeLatest(env, ok, none) ==
  IF "readdir" \in env.fail
  THEN Returned([success |-> FALSE, error |-> FacadeMessage("readdir")], <<"readdir">>)
  ELSE IF env.n = 0
  THEN Returned([success |-> FALSE, error |-> none], <<"readdir">>)
  ELSE IF "readFile" \in env.fail
  THEN Returned([success |-> FALSE, error |-> FacadeMessage("readFile")],
                <<"readdir", "readFile">>)
  ELSE ok

SvOpenPaint(args, env) ==
  TryOps(<<"openApplication">>, env.fail, [success |-> TRUE, message |-> "Paint opened"])

SvDrawOnCanvas(args, env) ==
  TryOps(<<"locator", "mouseClickAndHold", "mouseMove", "mouseRelease">>, env.fail,
         [success |-> TRUE, message |-> "Drew " \o args.description])

SvTakeScreenshot(args, env) ==
  TryOps(<<"captureScreen", "writeFile">>, env.fail,
         [success |-> TRUE,
          message |-> "Screenshot saved: art_" \o ToString(env.n + 1) \o ".png ("
                        \o ToString(Screenshot.bytes \div 1024) \o "KB)",
          filename |-> "art_" \o ToString(env.n + 1) \o ".png",
          sizeKB |-> Screenshot.bytes \div 1024])

SvAnalyzeScreenshot(args, env) ==
  AnalyzeLatest(env,
    IF "generateText" \in env.fail
    THEN Returned([success |-> FALSE, error |-> FacadeMessage("generateText")],
                  <<"readdir", "readFile", "generateText">>)
    ELSE Returned([success |-> TRUE,
                   message |-> "Vision analysis complete",
                   analysis |-> "a drawing",
                   file |-> "art_" \o ToString(env.n) \o ".png"],
                  <<"readdir", "readFile", "generateText">>),
    "No screenshots found. Take a screenshot first.")

SimpleVisionToolNames == {"openPaint", "drawOnCanvas", "takeScreenshot", "analyzeScreenshot"}

SimpleVisionExecute(tool, args, env) ==
  CASE tool = "openPaint" -> SvOpenPaint(args, env)
    [] tool = "drawOnCanvas" -> SvDrawOnCanvas(args, env)
    [] tool = "takeScreenshot" -> SvTakeScreenshot(args, env)
    [] tool = "analyzeScreenshot" -> SvAnalyzeScreenshot(args, env)

(***************************************************************************)
(* vision-artist.js: the drawing helpers and the registry  artistTools.    *)
(***************************************************************************)
Shapes == {"circle", "square", "star", "heart", "line", "spiral", "triangle"}

\* Number of points each generator pushes before drawConnectedPoints.
ShapePointCount(shape) ==
  CASE shape = "circle" -> 37
    [] shape = "square" -> 5
    [] shape = "star" -> 11
    [] shape = "heart" -> 36
    [] shape = "triangle" -> 4
    [] shape = "spiral" -> 48

\* A gesture that keeps the button down.
GestureOpsNoRelease(n) ==
  IF n = 0 THEN <<>>
  ELSE <<"mouseClickAndHold">> \o [i \in 1..(n - 1) |-> "mouseMove"]

\* The mouse operations drawConnectedPoints issues for n points: nothing for
\* an empty sequence, otherwise press, n-1 moves, release.
GestureOps(n) ==
  IF n = 0 THEN <<>>
  ELSE <<"mouseClickAndHold">> \o [i \in 1..(n - 1) |-> "mouseMove"] \o <<"mouseRelease">>

\* A replay that issues the failed mouse operation a second time.
DrawConnectedPointsReplay(n, fail) ==
  IF FirstFail(GestureOps(n), fail) = 0 THEN GestureOps(n)
  ELSE Attempted(GestureOps(n), fail) \o <<GestureOps(n)[FirstFail(GestureOps(n), fail)]>>

\* drawConnectedPoints / drawLine catch and log every mouse failure: the
\* caller sees a normal return; only the attempted operations differ.
DrawConnectedPoints(n, fail) == Attempted(GestureOps(n), fail)

DrawLine(fail) == Attempted(<<"mouseClickAndHold", "mouseMove", "mouseRelease">>, fail)

VaOpenPaint(args, env) ==
  TryOps(<<"openApplication", "elementProps">>, env.fail,
         [success |-> TRUE,
          message |-> "MS Paint opened successfully and ready for drawing!",
          app |-> [name |-> "Paint", role |-> "Window"]])

\* A brush setup that gives up when neither selector can be clicked.
VaSetupBrushStrict(args, env) ==
  TryOps(IF "clickBrush" \in env.fail THEN <<"clickBrushTool">> ELSE <<"clickBrush">>,
         env.fail \ {"clickBrush"},
         [success |-> TRUE,
          message |-> "Brush configured: " \o Get(args, "size", "medium") \o " "
                        \o Get(args, "color", "black") \o " brush ready!",
          settings |-> [size |-> Get(args, "size", "medium"),
                        color |-> Get(args, "color", "black")]])

\* The second selector is tried only when the first click fails; both
\* failures are swallowed.
VaSetupBrush(args, env) ==
  LET size == Get(args, "size", "medium")
      color == Get(args, "color", "black")
      ops == <<"clickBrush", "clickBrushTool">>
  IN Returned([success |-> TRUE,
               message |-> "Brush configured: " \o size \o " " \o color \o " brush ready!",
               settings |-> [size |-> size, color |-> color]],
              IF "clickBrush" \in env.fail THEN ops ELSE <<"clickBrush">>)

\* The canvas locator falls back twice; only a failure of the last fallback
\* reaches the outer catch.  logs holds the line the gesture's own catch
\* prints when a mouse operation throws.
VaDrawShape(args, env) ==
  LET locs == <<"locatorCanvas", "locatorMSPaintView", "locatorPaint">>
      upto == IF \E i \in 1..3 : locs[i] \notin env.fail
              THEN CHOOSE i \in 1..3 : /\ locs[i] \notin env.fail
                                       /\ \A j \in 1..(i - 1) : locs[j] \in env.fail
              ELSE 0
      gesture == IF args.shape = "line" THEN DrawLine(env.fail)
                 ELSE DrawConnectedPoints(ShapePointCount(args.shape), env.fail)
      logs == IF gesture # <<>> /\ gesture[Len(gesture)] \in env.fail
              THEN <<(IF args.shape = "line" THEN "Drawing line: " ELSE "Drawing points: ")
                       \o FacadeMessage(gesture[Len(gesture)])>>
              ELSE <<>>
  IN IF upto = 0
     THEN Returned([success |-> FALSE, error |-> FacadeMessage("locatorPaint")], locs)
     ELSE Merge(
          Returned([success |-> TRUE,
                    message |-> "Drew " \o args.shape \o " at position ("
                                  \o ToString(args.x) \o ", " \o ToString(args.y)
                                  \o ") with size " \o ToString(args.size),
                    drawing |-> [shape |-> args.shape, x |-> args.x, y |-> args.y,
                                 size |-> args.size]],
                   SubSeq(locs, 1, upto) \o gesture),
          [logs |-> logs])

VaCaptureArtwork(args, env) ==
  TryOps(<<"captureScreen", "writeFile">>, env.fail,
         [success |-> TRUE,
          message |-> "Artwork captured! File: artwork_" \o ToString(env.n + 1) \o ".png",
          capture |-> [filename |-> "artwork_" \o ToString(env.n + 1) \o ".png",
                       size |-> ToString(Screenshot.width) \o "x"
                                  \o ToString(Screenshot.height),
                       purpose |-> Get(args, "purpose", "general artwork capture"),
                       fileSizeKB |-> Screenshot.bytes \div 1024]])

\* An analysis that passes the failure of the vision model on to the caller.
VaAnalyzeArtworkFails(args, env) ==
  AnalyzeLatest(env,
    TryOps(<<"readdir", "readFile", "generateText">>, env.fail,
           [success |-> TRUE, message |-> "Artwork analysis completed",
            analysis |-> "a drawing",
            file |-> "artwork_" \o ToString(env.n) \o ".png",
            focus |-> Get(args, "focus", "overall composition and quality")]),
    "No artwork captures found. Use captureArtwork first.")

\* A failing vision model call is answered with the canned technical
\* analysis and success=true.
VaAnalyzeArtwork(args, env) ==
  AnalyzeLatest(env,
    Returned([success |-> TRUE,
              message |-> (IF "generateText" \in env.fail
                           THEN "Artwork analysis completed (technical mode)"
                           ELSE "Artwork analysis completed"),
              analysis |-> (IF "generateText" \in env.fail
                            THEN "Vision analysis error: " \o FacadeMessage("generateText")
                            ELSE "a drawing"),
              file |-> "artwork_" \o ToString(env.n) \o ".png",
              focus |-> Get(args, "focus", "overall composition and quality")],
             <<"readdir", "readFile", "generateText">>),
    "No artwork captures found. Use captureArtwork first.")

VisionArtistToolNames ==
  {"openPaint", "setupBrush", "drawShape", "captureArtwork", "analyzeArtwork"}

VisionArtistExecute(tool, args, env) ==
  CASE tool = "openPaint" -> VaOpenPaint(args, env)
    [] tool = "setupBrush" -> VaSetupBrush(args, env)
    [] tool = "drawShape" -> VaDrawShape(args, env)
    [] tool = "captureArtwork" -> VaCaptureArtwork(args, env)
    [] tool = "analyzeArtwork" -> VaAnalyzeArtwork(args, env)

(***************************************************************************)
(* Schema-valid arguments and facade environments for every tool.          *)
(***************************************************************************)
AiAgentArgs(tool) ==
  CASE tool = "screenshot" -> {NoArgs, [withOCR |-> TRUE], [savePath |-> "shot.png"]}
    [] tool = "clickElement" ->
         {[selector |-> "name:Seven"], [selector |-> "name:Seven", action |-> "rightClick"]}
    [] tool = "findElements" ->
         {[selector |-> "role:button"]}
           \cup {[selector |-> "role:button", limit |-> l] : l \in {-1, 0, 3}}
    [] tool = "appControl" ->
         {[action |-> a] : a \in {"launch", "list", "focus", "activate"}}
           \cup {[action |-> a, appName |-> "calc"] : a \in {"launch", "focus", "activate"}}
    [] tool = "ocrTool" -> {NoArgs, [imagePath |-> "shot.png"]}
    [] tool = "textInput" ->
         {[text |-> "hello"], [text |-> "hello", selector |-> "name:Edit"]}
    [] tool = "calculator" ->
         {[expression |-> e] : e \in Exprs}
           \cup {[expression |-> e, useApp |-> TRUE] : e \in {"2+2", "2+"}}
    [] tool = "fileManager" ->
         {[action |-> a] : a \in {"read", "write", "list", "open"}}
           \cup {[action |-> a, filepath |-> "a.txt", content |-> "x"] :
                   a \in {"read", "write", "open"}}
    [] tool = "webTool" ->
         {[action |-> "open"], [action |-> "open", url |-> "https://example.com"],
          [action |-> "getCurrentBrowser"]}
    [] tool = "commandRunner" -> {[unixCommand |-> "ls"], [windowsCommand |-> "dir"]}

AiAgentOps(tool) ==
  CASE tool = "screenshot" -> {"captureScreen", "writeFile", "ocrScreenshot"}
    [] tool = "clickElement" -> {"first", "click", "rightClick"}
    [] tool = "findElements" -> {"all", "elementProps"}
    [] tool = "appControl" -> {"openApplication", "applications", "activateApplication", "focus"}
    [] tool = "ocrTool" -> {"captureScreen", "ocrImagePath"}
    [] tool = "textInput" -> {"first", "typeText"}
    [] tool = "calculator" -> {"openApplication"}
    [] tool = "fileManager" -> {"readFile", "writeFile", "readdir", "openFile"}
    [] tool = "webTool" -> {"openUrl", "getCurrentBrowserWindow"}
    [] tool = "commandRunner" -> {"runCommand"}

SimpleVisionArgs(tool) ==
  CASE tool = "drawOnCanvas" ->
         {[startX |-> 300, startY |-> 200, endX |-> 500, endY |-> 300,
           description |-> "test line"]}
    [] tool = "takeScreenshot" -> {NoArgs, [reason |-> "test capture"]}
    [] tool = "analyzeScreenshot" -> {NoArgs, [question |-> "What did I just draw?"]}
    [] OTHER -> {NoArgs}

SimpleVisionOps(tool) ==
  CASE tool = "openPaint" -> {"openApplication"}
    [] tool = "drawOnCanvas" -> {"mouseClickAndHold", "mouseMove", "mouseRelease"}
    [] tool = "takeScreenshot" -> {"captureScreen", "writeFile"}
    [] tool = "analyzeScreenshot" -> {"readdir", "readFile", "generateText"}

VisionArtistArgs(tool) ==
  CASE tool = "setupBrush" -> {NoArgs, [size |-> "medium", color |-> "red"]}
    [] tool = "drawShape" -> {[shape |-> sh, x |-> 400, y |-> 300, size |-> 60] : sh \in Shapes}
    [] tool = "captureArtwork" -> {NoArgs, [purpose |-> "test vision system"]}
    [] tool = "analyzeArtwork" -> {NoArgs, [focus |-> "overall composition and colors"]}
    [] OTHER -> {NoArgs}

VisionArtistOps(tool) ==
  CASE tool = "openPaint" -> {"openApplication", "elementProps"}
    [] tool = "setupBrush" -> {"clickBrush", "clickBrushTool"}
    [] tool = "drawShape" ->
         {"locatorCanvas", "locatorMSPaintView", "locatorPaint",
          "mouseClickAndHold", "mouseMove", "mouseRelease"}
    [] tool = "captureArtwork" -> {"captureScreen", "writeFile"}
    [] tool = "analyzeArtwork" -> {"readdir", "readFile", "generateText"}

Registries == {"test-agent", "simple-agent", "ai-agent", "simple-vision", "vision-artist"}

ToolNames(reg) ==
  CASE reg = "test-agent" -> TestAgentToolNames
    [] reg = "simple-agent" -> TestAgentToolNames
    [] reg = "ai-agent" -> AiAgentToolNames
    [] reg = "simple-vision" -> SimpleVisionToolNames
    [] reg = "vision-artist" -> VisionArtistToolNames

ArgsOf(reg, tool) ==
  CASE reg \in {"test-agent", "simple-agent"} -> TestAgentArgs(tool)
    [] reg = "ai-agent" -> AiAgentArgs(tool)
    [] reg = "simple-vision" -> SimpleVisionArgs(tool)
    [] reg = "vision-artist" -> VisionArtistArgs(tool)

OpsOf(reg, tool) ==
  CASE reg \in {"test-agent", "simple-agent"} -> TestAgentOps(tool)
    [] reg = "ai-agent" -> AiAgentOps(tool)
    [] reg = "simple-vision" -> SimpleVisionOps(tool)
    [] reg = "vision-artist" -> VisionArtistOps(tool)

\* How many elements / files the facade finds, where the tool asks.
CountsOf(tool) ==
  IF tool \in {"findElements", "appControl"} THEN 0..MaxElems
  ELSE IF tool \in {"fileManager", "analyzeScreenshot", "analyzeArtwork",
                    "takeScreenshot", "captureArtwork"} THEN {0, 1}
  ELSE {0}

EnvsOf(reg, tool) ==
  IF tool \in {"runCommand", "commandRunner"}
  THEN {Env(f, 0, x, so, se) : f \in SUBSET OpsOf(reg, tool), x \in {0, 1},
                               so \in {"", "out"}, se \in {"", "warn"}}
  ELSE {Env(f, n, 0, "", "") : f \in SUBSET OpsOf(reg, tool), n \in CountsOf(tool)}

Execute(reg, tool, args, env) ==
  CASE reg = "test-agent" -> TestAgentExecute(tool, args, env)
    [] reg = "simple-agent" -> SimpleAgentExecute(tool, args, env)
    [] reg = "ai-agent" -> AiAgentExecute(tool, args, env)
    [] reg = "simple-vision" -> SimpleVisionExecute(tool, args, env)
    [] reg = "vision-artist" -> VisionArtistExecute(tool, args, env)

(***************************************************************************)
(* Direct invocation of a tool's execute with schema-valid arguments: the  *)
(* specification under which the result contract of the registries is      *)
(* checked.                                                                *)
(***************************************************************************)
Idle ==
  /\ call = None /\ out = None
  /\ input = <<>> /\ batch = <<>> /\ chunks = 0 /\ idx = 0
  /\ transcript = <<>> /\ modelCalls = 0 /\ execRuns = 0 /\ facadeCalls = <<>>
  /\ exitCode = -1 /\ history = <<>> /\ promises = NoPromises

InitTools == script = "tools" /\ pc = "ready" /\ Idle

Invoke(reg) ==
  /\ script = "tools" /\ pc = "ready"
  /\ \E tool \in ToolNames(reg) : \E args \in ArgsOf(reg, tool) : \E env \in EnvsOf(reg, tool) :
       /\ call' = [reg |-> reg, tool |-> tool, args |-> args, env |-> env]
       /\ out' = Execute(reg, tool, args, env)
  /\ pc' = "returned"
  /\ UNCHANGED <<script, input, batch, chunks, idx, transcript, modelCalls, execRuns,
                 facadeCalls, exitCode, history, promises>>

InvokeTestAgentTool == Invoke("test-agent")
InvokeSimpleAgentTool == Invoke("simple-agent")
InvokeAiAgentTool == Invoke("ai-agent")
InvokeSimpleVisionTool == Invoke("simple-vision")
InvokeVisionArtistTool == Invoke("vision-artist")

(***************************************************************************)
(* Capture files.  A file name is the sequence of its characters; the      *)
(* clock of a run is t milliseconds after 2023-11-14T22:13:20.000Z, which  *)
(* Date.now() gives as 1700000000000 + t.                                  *)
(***************************************************************************)
MaxCaptures == 3

\* prefix + Date.now() + '.png'
MsFileName(prefix, t) ==
  prefix \o <<"1", "7", "0", "0", "0", "0", "0", "0", "0", "0", "0", "0", ToString(t)>>
         \o <<".", "p", "n", "g">>

\* 'artwork_' + new Date().toISOString().replace(/[:.]/g, '-') + '.png'
IsoFileName(t) ==
  LET iso == <<"2", "0", "2", "3", "-", "1", "1", "-", "1", "4", "T",
               "2", "2", ":", "1", "3", ":", "2", "0", ".", "0", "0", ToString(t), "Z">>
      timestamp == [i \in 1..Len(iso) |-> IF iso[i] \in {":", "."} THEN "-" ELSE iso[i]]
  IN <<"a", "r", "t", "w", "o", "r", "k", "_">> \o timestamp \o <<".", "p", "n", "g">>

\* files.sort().pop(): the last name in the order of the UTF-16 code units.
SortPop(files) ==
  LET Code(c) ==
        CASE c = "-" -> 45 [] c = "." -> 46
          [] c = "0" -> 48 [] c = "1" -> 49 [] c = "2" -> 50 [] c = "3" -> 51 [] c = "4" -> 52
          [] c = "5" -> 53 [] c = "6" -> 54 [] c = "7" -> 55 [] c = "8" -> 56 [] c = "9" -> 57
          [] c = "T" -> 84 [] c = "Z" -> 90 [] c = "_" -> 95
          [] c = "a" -> 97 [] c = "g" -> 103 [] c = "k" -> 107 [] c = "n" -> 110
          [] c = "o" -> 111 [] c = "p" -> 112 [] c = "r" -> 114 [] c = "t" -> 116
          [] c = "w" -> 119
      RECURSIVE Before(_, _, _)
      Before(a, b, i) ==
        IF i > Len(a) THEN i <= Len(b)
        ELSE IF i > Len(b) THEN FALSE
        ELSE IF a[i] = b[i] THEN Before(a, b, i + 1)
        ELSE Code(a[i]) < Code(b[i])
  IN CHOOSE f \in files : \A g \in files \ {f} : Before(g, f, 1)

\* Captures of one working directory, one per millisecond, by the simple
\* vision artist's takeScreenshot, the vision artist's captureArtwork or the
\* working artist's takeScreenshot, each of which writes its file unless
\* the capture throws; then one of the two analyse tools looks for the
\* latest file of its prefix.  input keeps the captures, out the answer.
AnalyseAfterCaptures ==
  /\ script = "tools" /\ pc = "ready"
  /\ \E n \in 0..MaxCaptures :
     \E by \in [1..n -> {"simple-vision", "vision-artist", "working-artist"}] :
     \E ok \in [1..n -> BOOLEAN] :
     \E tool \in {"analyzeScreenshot", "analyzeArtwork"} :
       LET filename(i) ==
             CASE by[i] = "simple-vision" -> MsFileName(<<"a", "r", "t", "_">>, i)
               [] by[i] = "vision-artist" -> IsoFileName(i)
               [] by[i] = "working-artist" ->
                    MsFileName(<<"a", "r", "t", "w", "o", "r", "k", "_">>, i)
           prefix == IF tool = "analyzeScreenshot" THEN <<"a", "r", "t", "_">>
                     ELSE <<"a", "r", "t", "w", "o", "r", "k", "_">>
           files == {filename(i) : i \in {j \in 1..n : ok[j]}}
           startsWith(f) == Len(f) >= Len(prefix) /\ SubSeq(f, 1, Len(prefix)) = prefix
           endsWith(f) == Len(f) >= 4 /\ SubSeq(f, Len(f) - 3, Len(f)) = <<".", "p", "n", "g">>
           found == {f \in files : startsWith(f) /\ endsWith(f)}
       IN /\ input' = [i \in 1..n |->
                         [by |-> by[i], ok |-> ok[i], filename |-> filename(i)]]
          /\ out' = IF found = {}
                    THEN [tool |-> tool, success |-> FALSE,
                          error |-> IF tool = "analyzeScreenshot"
                                    THEN "No screenshots found. Take a screenshot first."
                                    ELSE "No artwork captures found. Use captureArtwork first."]
                    ELSE [tool |-> tool, success |-> TRUE, file |-> SortPop(found)]
  /\ pc' = "analysed"
  /\ UNCHANGED <<script, call, batch, chunks, idx, transcript, modelCalls, execRuns,
                 facadeCalls, exitCode, history, promises>>

NextTools ==
  \/ InvokeTestAgentTool
  \/ InvokeSimpleAgentTool
  \/ InvokeAiAgentTool
  \/ InvokeSimpleVisionTool
  \/ InvokeVisionArtistTool
  \/ AnalyseAfterCaptures

SpecTools == InitTools /\ [][NextTools]_vars

(***************************************************************************)
(* Text as the programs handle it: a message is a sequence of characters.  *)
(***************************************************************************)
ToLowerChar(c) ==
  CASE c = "Q" -> "q" [] c = "U" -> "u" [] c = "I" -> "i" [] c = "T" -> "t"
    [] c = "E" -> "e" [] c = "X" -> "x" [] c = "B" -> "b" [] c = "A" -> "a"
    [] c = "C" -> "c" [] c = "K" -> "k" [] OTHER -> c

ToLowerCase(m) == [i \in 1..Len(m) |-> ToLowerChar(m[i])]

IsSpace(c) == c \in {" ", "\t"}

RECURSIVE TrimStart(_)
TrimStart(m) ==
  IF m # <<>> /\ IsSpace(Head(m)) THEN TrimStart(Tail(m)) ELSE m

RECURSIVE TrimEnd(_)
TrimEnd(m) ==
  IF m # <<>> /\ IsSpace(m[Len(m)]) THEN TrimEnd(SubSeq(m, 1, Len(m) - 1)) ELSE m

Trim(m) == TrimEnd(TrimStart(m))

\* words.join(sep)
RECURSIVE Join(_, _)
Join(words, sep) ==
  IF words = <<>> THEN ""
  ELSE IF Len(words) = 1 THEN words[1]
  ELSE words[1] \o sep \o Join(Tail(words), sep)

Messages ==
  { <<"q", "u", "i", "t">>, <<"E", "x", "i", "t">>, <<"Q", "U", "I", "T">>,
    <<>>, <<" ", "\t">>, <<" ", "q", "u", "i", "t">>, <<"h", "i">> }

ModelMessage == "model request failed"

(***************************************************************************)
(* One dispatch turn: streamText is awaited, its text stream is consumed   *)
(* chunk by chunk, then response.toolCalls is walked and every result is   *)
(* printed.  The tools named by the model are executed inside streamText,  *)
(* which is library code: the turn sees only the captured results.         *)
(***************************************************************************)
\* The registry a script hands to streamText.
RegistryOf(s) == s

\* Tool calls the model may request in a turn, with the facade's behaviour.
TurnCalls(reg) ==
  CASE reg \in {"test-agent", "simple-agent"} ->
         { [tool |-> "calculate", args |-> [expression |-> "2+2"],
            env |-> Env({}, 0, 0, "", "")],
           [tool |-> "clickElement", args |-> [selector |-> "name:DoesNotExist"],
            env |-> Env({"first"}, 0, 0, "", "")],
           [tool |-> "runCommand", args |-> [command |-> "dir"],
            env |-> Env({}, 0, 0, "out", "warn")],
           [tool |-> "findElements", args |-> [selector |-> "role:Button"],
            env |-> Env({}, 2, 0, "", "")],
           [tool |-> "screenshot", args |-> [withOCR |-> TRUE],
            env |-> Env({}, 0, 0, "", "")] }
    [] reg = "simple-vision" ->
         { [tool |-> "openPaint", args |-> NoArgs, env |-> Env({}, 0, 0, "", "")],
           [tool |-> "takeScreenshot", args |-> NoArgs,
            env |-> Env({"captureScreen"}, 0, 0, "", "")],
           [tool |-> "analyzeScreenshot", args |-> NoArgs, env |-> Env({}, 1, 0, "", "")] }
    [] reg = "vision-artist" ->
         { [tool |-> "setupBrush", args |-> NoArgs, env |-> Env({"clickBrush"}, 0, 0, "", "")],
           [tool |-> "captureArtwork", args |-> NoArgs, env |-> Env({"writeFile"}, 0, 0, "", "")],
           [tool |-> "analyzeArtwork", args |-> NoArgs, env |-> Env({}, 1, 0, "", "")] }
    [] reg = "ai-agent" ->
         { [tool |-> "calculator", args |-> [expression |-> "2+2"],
            env |-> Env({}, 0, 0, "", "")],
           [tool |-> "clickElement", args |-> [selector |-> "name:Seven"],
            env |-> Env({"first"}, 0, 0, "", "")] }

\* toolCall.toolName and toolCall.result of one requested call.
Captured(reg, c) ==
  [tool |-> c.tool, result |-> Execute(reg, c.tool, c.args, c.env).result]

RECURSIVE SeqsUpTo(_, _)
SeqsUpTo(S, n) ==
  IF n = 0 THEN {<<>>}
  ELSE SeqsUpTo(S, n - 1) \cup {Append(q, x) : q \in SeqsUpTo(S, n - 1), x \in S}

Batches(reg) == SeqsUpTo({Captured(reg, c) : c \in TurnCalls(reg)}, MaxBatch)

Line(tag, i, text) == [tag |-> tag, i |-> i, text |-> text]

Truthy(r, f) == Has(r, f) /\ r[f] # ""

ElementNames(els) == Join([i \in 1..Len(els) |-> els[i].name], ", ")

\* simple-agent.js / test-agent.js: the body of  for (const toolCall of response.toolCalls)
RenderAgentResult(i, r) ==
  IF Has(r, "success") /\ r.success
  THEN <<Line("ok", i, r.message)>>
         \o (IF Truthy(r, "extractedText")
             THEN <<Line("text-found", i, r.extractedText)>> ELSE <<>>)
         \o (IF Has(r, "elements")
             THEN <<Line("elements", i, ElementNames(r.elements))>> ELSE <<>>)
         \o (IF Truthy(r, "output") THEN <<Line("output", i, r.output)>> ELSE <<>>)
  ELSE <<Line("err", i, Get(r, "error", "undefined"))>>

\* the simple vision artist's createArt
RenderSimpleVisionResult(i, r) ==
  IF Has(r, "success") /\ r.success
  THEN <<Line("ok", i, r.message)>>
         \o (IF Truthy(r, "analysis") THEN <<Line("analysis", i, r.analysis)>> ELSE <<>>)
  ELSE <<Line("err", i, Get(r, "error", "undefined"))>>

\* vision-artist.js createVerifiedArtwork
RenderVisionArtistResult(i, r) ==
  IF Has(r, "success") /\ r.success
  THEN <<Line("ok", i, r.message)>>
         \o (IF Has(r, "app") THEN <<Line("app", i, r.app.name)>> ELSE <<>>)
         \o (IF Has(r, "settings") THEN <<Line("settings", i, r.settings.size)>> ELSE <<>>)
         \o (IF Has(r, "drawing") THEN <<Line("drawing", i, r.drawing.shape)>> ELSE <<>>)
         \o (IF Has(r, "capture") THEN <<Line("capture", i, r.capture.filename)>> ELSE <<>>)
         \o (IF Truthy(r, "analysis") THEN <<Line("analysis", i, r.analysis)>> ELSE <<>>)
  ELSE <<Line("err", i, Get(r, "error", "undefined"))>>

\* the ai-agent's chat: tool name, then the whole result as JSON
RenderAiChatResult(i, c) ==
  <<Line("tool", i, c.tool), [tag |-> "json", i |-> i, value |-> c.result]>>

Render(s, i, c) ==
  CASE s \in {"simple-agent", "test-agent"} -> RenderAgentResult(i, c.result)
    [] s = "simple-vision" -> RenderSimpleVisionResult(i, c.result)
    [] s = "vision-artist" -> RenderVisionArtistResult(i, c.result)
    [] s = "ai-agent" -> RenderAiChatResult(i, c)

Exit(code) == pc' = "exited" /\ exitCode' = code

\* await streamText(...) resolves: the response carries a finite text stream
\* and the tool calls with their captured results.
StreamTextReturns ==
  /\ pc = "calling"
  /\ \E n \in 0..MaxChunks : chunks' = n
  /\ \E b \in Batches(RegistryOf(script)) : batch' = b
  /\ pc' = "streaming"
  /\ UNCHANGED <<script, call, out, input, idx, transcript, modelCalls, execRuns,
                 facadeCalls, exitCode, history, promises>>

\* for await (const chunk of response.textStream): one chunk is written
StreamChunk ==
  /\ pc = "streaming" /\ chunks > 0
  /\ chunks' = chunks - 1
  /\ transcript' = Append(transcript, Line("chunk", 0, "text"))
  /\ UNCHANGED <<script, pc, call, out, input, batch, idx, modelCalls, execRuns,
                 facadeCalls, exitCode, history, promises>>

\* fullResponse: the chunks written since the turn began, concatenated.
RECURSIVE Repeat(_, _)
Repeat(str, n) == IF n = 0 THEN "" ELSE str \o Repeat(str, n - 1)

StreamedText ==
  Repeat("text", Cardinality({i \in 1..Len(transcript) : transcript[i].tag = "chunk"}))

\* conversationHistory.slice(-3): what the next chat request carries as
\* "Previous conversation context".
ContextSize == 3
ChatContext(h) == SubSeq(h, Len(h) - Min(ContextSize, Len(h)) + 1, Len(h))

\* The loop over response.toolCalls entered without draining the stream.
StreamEndEarly ==
  /\ pc = "streaming"
  /\ pc' = "reporting" /\ idx' = 1
  /\ transcript' =
       IF script \in {"simple-vision", "vision-artist", "ai-agent"} /\ batch # <<>>
       THEN Append(transcript, Line("header", 0, "Tool Results:"))
       ELSE transcript
  /\ UNCHANGED <<script, call, out, input, batch, chunks, modelCalls, execRuns,
                 facadeCalls, exitCode, history, promises>>

\* the stream is exhausted: the loop over response.toolCalls begins
StreamEnd ==
  /\ pc = "streaming" /\ chunks = 0
  /\ pc' = "reporting" /\ idx' = 1
  /\ transcript' =
       IF script \in {"simple-vision", "vision-artist", "ai-agent"} /\ batch # <<>>
       THEN Append(transcript, Line("header", 0, "Tool Results:"))
       ELSE transcript
  /\ UNCHANGED <<script, call, out, input, batch, chunks, modelCalls, execRuns,
                 facadeCalls, exitCode, history, promises>>

\* The same iteration with a break after a failed result.
ReportResultBreakOnFailure ==
  /\ pc = "reporting" /\ idx <= Len(batch)
  /\ transcript' = transcript \o Render(script, idx, batch[idx])
  /\ idx' = IF Has(batch[idx].result, "success") /\ ~batch[idx].result.success
            THEN Len(batch) + 1 ELSE idx + 1
  /\ UNCHANGED <<script, pc, call, out, input, batch, chunks, modelCalls, execRuns,
                 facadeCalls, exitCode, history, promises>>

\* one iteration of the loop over response.toolCalls
ReportResult ==
  /\ pc = "reporting" /\ idx <= Len(batch)
  /\ transcript' = transcript \o Render(script, idx, batch[idx])
  /\ idx' = idx + 1
  /\ UNCHANGED <<script, pc, call, out, input, batch, chunks, modelCalls, execRuns,
                 facadeCalls, exitCode, history, promises>>

\* The end of a turn that does not record the exchange.
FinishTurnForgets ==
  /\ pc = "reporting" /\ idx > Len(batch)
  /\ transcript' = Append(transcript, Line("end", 0, ""))
  /\ IF script = "simple-agent" THEN pc' = "prompt" /\ UNCHANGED exitCode
     ELSE IF script = "ai-agent" THEN pc' = "chatPrompt" /\ UNCHANGED exitCode
     ELSE Exit(0)
  /\ UNCHANGED <<script, call, out, input, batch, chunks, idx, modelCalls, execRuns,
                 facadeCalls, history, promises>>

\* after the loop: the turn is done
FinishTurn ==
  /\ pc = "reporting" /\ idx > Len(batch)
  /\ transcript' =
       (IF script = "simple-vision" /\ batch = <<>>
        THEN Append(transcript, Line("err", 0, "No tools were used!"))
        ELSE transcript) \o <<Line("end", 0, "")>>
  /\ CASE script = "simple-agent" -> pc' = "prompt" /\ UNCHANGED <<exitCode, history, promises>>
       [] script = "test-agent" -> Exit(0) /\ UNCHANGED <<history, promises>>
       [] script \in {"simple-vision", "vision-artist"} -> Exit(0) /\ UNCHANGED <<history, promises>>
       [] script = "ai-agent" ->
            /\ pc' = "chatPrompt"
            /\ history' = Append(history, [type |-> "chat", user |-> input,
                                            ai |-> StreamedText])
            /\ UNCHANGED <<exitCode, promises>>
  /\ UNCHANGED <<script, call, out, input, batch, chunks, idx, modelCalls, execRuns,
                 facadeCalls, promises>>

\* The turn without its catch: the error ends the process.
TurnThrowsEscapes ==
  /\ pc \in {"calling", "streaming"}
  /\ transcript' = Append(transcript, Line("fatal", 0, ModelMessage))
  /\ Exit(1)
  /\ UNCHANGED <<script, call, out, input, batch, chunks, idx, modelCalls, execRuns,
                 facadeCalls, history, promises>>

\* streamText or the text stream throws: the catch around the turn
TurnThrows ==
  /\ pc \in {"calling", "streaming"}
  /\ CASE script = "simple-agent" ->
            /\ transcript' = Append(transcript, Line("error", 0, ModelMessage))
            /\ pc' = "prompt" /\ UNCHANGED <<exitCode, promises>>
       [] script = "test-agent" ->
            /\ transcript' = Append(transcript, Line("fatal", 0, ModelMessage))
            /\ Exit(1)
       [] script \in {"simple-vision", "vision-artist"} ->
            /\ transcript' = Append(transcript, Line("error", 0, ModelMessage))
            /\ Exit(0)
       [] script = "ai-agent" ->
            /\ transcript' = Append(transcript, Line("error", 0, ModelMessage))
            /\ pc' = "chatPrompt" /\ UNCHANGED <<exitCode, promises>>
  /\ UNCHANGED <<script, call, out, input, batch, chunks, idx, modelCalls, execRuns,
                 facadeCalls, history, promises>>

(***************************************************************************)
(* simple-agent.js: chat().                                                *)
(***************************************************************************)
\* inquirer.prompt resolves with a message; the loop body runs up to the
\* await of streamText.
ReadMessage ==
  /\ script = "simple-agent" /\ pc = "prompt"
  /\ \E m \in Messages :
       /\ input' = m
       /\ IF ToLowerCase(m) \in {<<"q", "u", "i", "t">>, <<"e", "x", "i", "t">>}
          THEN /\ transcript' = <<Line("bye", 0, "Goodbye!")>>
               /\ Exit(0)
               /\ modelCalls' = 0
          ELSE IF Trim(m) = <<>>
          THEN /\ transcript' = <<>>
               /\ modelCalls' = 0
               /\ UNCHANGED <<pc, exitCode, promises>>
          ELSE /\ transcript' = <<Line("ai", 0, "AI: ")>>
               /\ modelCalls' = 1
               /\ pc' = "calling"
               /\ UNCHANGED <<exitCode, promises>>
  /\ batch' = <<>> /\ chunks' = 0 /\ idx' = 0
  /\ UNCHANGED <<script, call, out, execRuns, facadeCalls, history, promises>>

(***************************************************************************)
(* test-agent.js: the command line front end.  input is process.argv past  *)
(* the script name: input[1] is the command, the rest are params.          *)
(***************************************************************************)
Params(argv) == IF argv = <<>> THEN <<>> ELSE Tail(argv)

\* A check of the parameter's presence only.
ParamAbsent(argv) == Len(argv) < 2

\* !params[0]
NoFirstParam(argv) == Len(argv) < 2 \/ argv[2] = ""

TestAgentArgvs ==
  { <<>>, <<"screenshot">>, <<"screenshot", "--ocr">>,
    <<"click">>, <<"click", "">>, <<"click", "name:DoesNotExist">>,
    <<"find">>, <<"find", "role:Button">>,
    <<"open">>, <<"open", "notepad">>,
    <<"type">>, <<"type", "hello", "world">>,
    <<"calc">>, <<"calc", "2+2">>, <<"calc", "15", "*", "42", "+", "8">>, <<"calc", "2+">>,
    <<"calc", "undefined">>,
    <<"run">>, <<"run", "dir">>,
    <<"chat">>, <<"chat", "take", "a", "screenshot">>,
    <<"bogus">> }

\* The tool a direct command runs and the arguments it builds.
TaCommandTool(cmd) ==
  CASE cmd = "screenshot" -> "screenshot"
    [] cmd = "click" -> "clickElement"
    [] cmd = "find" -> "findElements"
    [] cmd = "open" -> "openApp"
    [] cmd = "type" -> "typeText"
    [] cmd = "calc" -> "calculate"
    [] cmd = "run" -> "runCommand"

TaCommandArgs(argv) ==
  LET cmd == argv[1]
      params == Params(argv)
  IN CASE cmd = "screenshot" -> [withOCR |-> \E i \in 1..Len(params) : params[i] = "--ocr"]
       [] cmd = "click" -> [selector |-> params[1]]
       [] cmd = "find" -> [selector |-> params[1]]
       [] cmd = "open" -> [appName |-> params[1]]
       [] cmd = "type" -> [text |-> Join(params, " ")]
       [] cmd = "calc" -> [expression |-> Join(params, " ")]
       [] cmd = "run" -> [command |-> Join(params, " ")]

TaMissingText(cmd) ==
  CASE cmd \in {"click", "find"} -> "Please provide a selector"
    [] cmd = "open" -> "Please provide an app name"
    [] cmd = "type" -> "Please provide text to type"
    [] cmd = "calc" -> "Please provide an expression"
    [] cmd = "run" -> "Please provide a command"
    [] cmd = "chat" -> "Please provide a message"

\* if (!command) { usage; process.exit(0) }
TaUsage ==
  /\ script = "test-agent" /\ pc = "start" /\ input = <<>>
  /\ transcript' = <<Line("usage", 0, "Usage examples:")>>
  /\ Exit(0)
  /\ UNCHANGED <<script, call, out, input, batch, chunks, idx, modelCalls, execRuns,
                 facadeCalls, history, promises>>

\* executeCommand() up to its first await: the switch on the command, the
\* check of the required parameter, and the call of the tool's execute or of
\* streamText.
TaExecuteCommand ==
  /\ script = "test-agent" /\ pc = "start" /\ input # <<>>
  /\ LET cmd == input[1] IN
       IF cmd \notin {"screenshot", "click", "find", "open", "type", "calc", "run", "chat"}
       THEN /\ transcript' = <<Line("invalid", 0, "Unknown command: " \o cmd)>>
            /\ Exit(1)
            /\ UNCHANGED <<call, out, modelCalls, execRuns, facadeCalls, promises>>
       ELSE IF cmd # "screenshot" /\ NoFirstParam(input)
       THEN /\ transcript' = <<Line("invalid", 0, TaMissingText(cmd))>>
            /\ Exit(1)
            /\ UNCHANGED <<call, out, modelCalls, execRuns, facadeCalls, promises>>
       ELSE IF cmd = "chat"
       THEN /\ transcript' = <<Line("ai", 0, "AI: ")>>
            /\ modelCalls' = 1
            /\ pc' = "calling"
            /\ UNCHANGED <<call, out, execRuns, facadeCalls, exitCode, promises>>
       ELSE \E env \in EnvsOf("test-agent", TaCommandTool(cmd)) :
              LET args == TaCommandArgs(input)
                  o == TestAgentExecute(TaCommandTool(cmd), args, env)
              IN /\ call' = [reg |-> "test-agent", tool |-> TaCommandTool(cmd),
                             args |-> args, env |-> env]
                 /\ out' = o
                 /\ execRuns' = 1
                 /\ facadeCalls' = o.calls
                 /\ pc' = "display"
                 /\ UNCHANGED <<transcript, modelCalls, exitCode, promises>>
  /\ UNCHANGED <<script, input, batch, chunks, idx, history, promises>>

\* "Display results": the lines printed for the result of a direct command
TaDisplayLines(r) ==
  <<Line("ok", 1, r.message)>>
    \o (IF Truthy(r, "extractedText")
        THEN <<Line("text-found", 1, r.extractedText)>> ELSE <<>>)
    \o (IF Has(r, "elements")
        THEN <<Line("elements", 1, "Found " \o ToString(r.count) \o " elements:")>>
               \o [i \in 1..Len(r.elements) |-> Line("element", 1, r.elements[i].name)]
        ELSE <<>>)
    \o (IF Truthy(r, "output") THEN <<Line("output", 1, r.output)>> ELSE <<>>)
    \o (IF Truthy(r, "error") THEN <<Line("stderr", 1, r.error)>> ELSE <<>>)
    \o (IF Truthy(r, "result") THEN <<Line("result", 1, r.result)>> ELSE <<>>)
    \o (IF Has(r, "app") THEN <<Line("app", 1, r.app.name)>> ELSE <<>>)

\* The display of the result without the exit on a failure.
TaDisplayNoExit ==
  /\ script = "test-agent" /\ pc = "display"
  /\ IF out.threw
     THEN /\ transcript' = <<Line("fatal", 0, out.result.thrown)>>
          /\ Exit(1)
     ELSE IF Has(out.result, "success") /\ out.result.success
     THEN /\ transcript' = TaDisplayLines(out.result)
          /\ Exit(0)
     ELSE /\ transcript' = <<Line("err", 1, Get(out.result, "error", "undefined"))>>
          /\ Exit(0)
  /\ UNCHANGED <<script, call, out, input, batch, chunks, idx, modelCalls, execRuns,
                 facadeCalls, history, promises>>

\* after the awaited execute: print the result; a failure exits with 1, a
\* success lets the process end on its own.
TaDisplay ==
  /\ script = "test-agent" /\ pc = "display"
  /\ IF out.threw
     THEN /\ transcript' = <<Line("fatal", 0, out.result.thrown)>>
          /\ Exit(1)
     ELSE IF Has(out.result, "success") /\ out.result.success
     THEN /\ transcript' = TaDisplayLines(out.result)
          /\ Exit(0)
     ELSE /\ transcript' = <<Line("err", 1, Get(out.result, "error", "undefined"))>>
          /\ Exit(1)
  /\ UNCHANGED <<script, call, out, input, batch, chunks, idx, modelCalls, execRuns,
                 facadeCalls, history, promises>>

(***************************************************************************)
(* Property lookup on an object literal: obj[name].  Own keys first, then  *)
(* what every object inherits from Object.prototype.                       *)
(***************************************************************************)
InheritedFunctions ==
  {"constructor", "toString", "toLocaleString", "valueOf", "hasOwnProperty",
   "isPrototypeOf", "propertyIsEnumerable"}

PropLookup(own, name) ==
  IF name \in own THEN [kind |-> "own", name |-> name]
  ELSE IF name \in InheritedFunctions THEN [kind |-> "function", name |-> name]
  ELSE IF name = "__proto__" THEN [kind |-> "object", name |-> name]
  ELSE [kind |-> "undefined", name |-> name]

(***************************************************************************)
(* The simple vision artist: command switch, createArt and the test run.   *)
(***************************************************************************)
SimpleVisionArgvs == { <<>>, <<"create", "draw", "a", "star">>, <<"create">>, <<"test">>, <<"bogus">> }

SvTestPlan == <<"openPaint", "drawOnCanvas", "takeScreenshot", "analyzeScreenshot">>

SvTestArgs(tool) ==
  CASE tool = "openPaint" -> NoArgs
    [] tool = "drawOnCanvas" ->
         [startX |-> 300, startY |-> 200, endX |-> 500, endY |-> 300,
          description |-> "test line"]
    [] tool = "takeScreenshot" -> [reason |-> "test capture"]
    [] tool = "analyzeScreenshot" -> [question |-> "What did I just draw?"]

ResultLine(i, r) ==
  IF Has(r, "success") /\ r.success THEN Line("ok", i, r.message)
  ELSE Line("err", i, Get(r, "error", "undefined"))

\* if (!command) { usage; process.exit(0) }
SvUsage ==
  /\ script = "simple-vision" /\ pc = "start" /\ input = <<>>
  /\ transcript' = <<Line("usage", 0, "Usage:")>>
  /\ Exit(0)
  /\ UNCHANGED <<script, call, out, input, batch, chunks, idx, modelCalls, execRuns,
                 facadeCalls, history, promises>>

\* switch (command): create starts createArt, test starts the tool tests,
\* anything else prints "Unknown command" and the script runs off its end.
SvCommand ==
  /\ script = "simple-vision" /\ pc = "start" /\ input # <<>>
  /\ CASE input[1] = "create" ->
            /\ transcript' = <<Line("ai", 0, "Creating")>>
            /\ modelCalls' = 1
            /\ pc' = "calling"
            /\ UNCHANGED <<idx, exitCode, promises>>
       [] input[1] = "test" ->
            /\ transcript' = <<Line("testing", 0, "Testing basic functionality...")>>
            /\ pc' = "testing" /\ idx' = 1
            /\ UNCHANGED <<modelCalls, exitCode, promises>>
       [] OTHER ->
            /\ transcript' = <<Line("invalid", 0, "Unknown command: " \o input[1])>>
            /\ Exit(0)
            /\ UNCHANGED <<modelCalls, idx, promises>>
  /\ UNCHANGED <<script, call, out, input, batch, chunks, execRuns, facadeCalls, history, promises>>

\* case 'test': the tools are executed one after the other; analyzeScreenshot
\* only when takeScreenshot succeeded.
SvTestStep ==
  /\ script = "simple-vision" /\ pc = "testing" /\ idx <= Len(SvTestPlan)
  /\ LET tool == SvTestPlan[idx] IN
       \E env \in EnvsOf("simple-vision", tool) :
         LET o == SimpleVisionExecute(tool, SvTestArgs(tool), env)
         IN /\ call' = [reg |-> "simple-vision", tool |-> tool,
                        args |-> SvTestArgs(tool), env |-> env]
            /\ out' = o
            /\ execRuns' = execRuns + 1
            /\ facadeCalls' = facadeCalls \o o.calls
            /\ transcript' = Append(transcript, ResultLine(idx, o.result))
            /\ idx' = IF tool = "takeScreenshot" /\ ~o.result.success
                      THEN Len(SvTestPlan) + 1 ELSE idx + 1
  /\ UNCHANGED <<script, pc, input, batch, chunks, modelCalls, exitCode, history, promises>>

SvTestDone ==
  /\ script = "simple-vision" /\ pc = "testing" /\ idx > Len(SvTestPlan)
  /\ transcript' = Append(transcript, Line("done", 0, "Test complete!"))
  /\ Exit(0)
  /\ UNCHANGED <<script, call, out, input, batch, chunks, idx, modelCalls, execRuns,
                 facadeCalls, history, promises>>

(***************************************************************************)
(* vision-artist.js: runCommand, createVerifiedArtwork and testTool.       *)
(***************************************************************************)
VisionArtistArgvs ==
  { <<>>, <<"create", "stars">>, <<"demo">>, <<"test-paint">>, <<"test-draw">>,
    <<"test-vision">>, <<"bogus">> }

\* The testTool calls each test command makes, in order.
VaTestPlan(cmd) ==
  CASE cmd = "test-paint" ->
         << [tool |-> "openPaint", args |-> NoArgs],
            [tool |-> "setupBrush", args |-> [size |-> "medium", color |-> "red"]] >>
    [] cmd = "test-draw" ->
         << [tool |-> "drawShape",
             args |-> [shape |-> "star", x |-> 400, y |-> 300, size |-> 60]] >>
    [] cmd = "test-vision" ->
         << [tool |-> "captureArtwork", args |-> [purpose |-> "test vision system"]],
            [tool |-> "analyzeArtwork", args |-> [focus |-> "overall composition and colors"]] >>
    [] OTHER -> <<>>

\* testTool(toolName, params): what it prints, whether an execute function
\* of the registry ran, and what it returns.
TestTool(toolName, params, env) ==
  LET found == PropLookup(VisionArtistToolNames, toolName)
  IN IF found.kind = "undefined"
     THEN [lines |-> <<Line("not-found", 0, "Tool " \o toolName \o " not found")>>,
           ran |-> FALSE, calls |-> <<>>, result |-> None]
     ELSE IF found.kind # "own"
     THEN \* artistTools[toolName].execute is undefined: the call throws, inside the try
          [lines |-> <<Line("exec-failed", 0, "Tool execution failed: execute is not a function")>>,
           ran |-> FALSE, calls |-> <<>>,
           result |-> [success |-> FALSE, error |-> "execute is not a function"]]
     ELSE LET o == VisionArtistExecute(toolName, params, env)
          IN [lines |-> <<ResultLine(0, o.result)>>
                          \o (IF o.result.success /\ Truthy(o.result, "analysis")
                              THEN <<Line("analysis", 0, o.result.analysis)>> ELSE <<>>),
              ran |-> TRUE, calls |-> o.calls, result |-> o.result]

VaUsage ==
  /\ script = "vision-artist" /\ pc = "start" /\ input = <<>>
  /\ transcript' = <<Line("usage", 0, "Usage examples:")>>
  /\ Exit(0)
  /\ UNCHANGED <<script, call, out, input, batch, chunks, idx, modelCalls, execRuns,
                 facadeCalls, history, promises>>

\* runCommand(): the switch on the command
VaRunCommand ==
  /\ script = "vision-artist" /\ pc = "start" /\ input # <<>>
  /\ CASE input[1] \in {"create", "demo"} ->
            /\ transcript' = <<Line("ai", 0, "AI Artist: ")>>
            /\ modelCalls' = 1
            /\ pc' = "calling"
            /\ UNCHANGED <<idx, exitCode, promises>>
       [] input[1] \in {"test-paint", "test-draw", "test-vision"} ->
            /\ transcript' = <<>>
            /\ pc' = "testing" /\ idx' = 1
            /\ UNCHANGED <<modelCalls, exitCode, promises>>
       [] OTHER ->
            /\ transcript' = <<Line("invalid", 0, "Unknown command: " \o input[1])>>
            /\ Exit(0)
            /\ UNCHANGED <<modelCalls, idx, promises>>
  /\ UNCHANGED <<script, call, out, input, batch, chunks, execRuns, facadeCalls, history, promises>>

\* one  await artist.testTool(...)  of a test command
VaTestTool ==
  /\ script = "vision-artist" /\ pc = "testing" /\ idx <= Len(VaTestPlan(input[1]))
  /\ LET step == VaTestPlan(input[1])[idx] IN
       \E env \in EnvsOf("vision-artist", step.tool) :
         LET t == TestTool(step.tool, step.args, env)
         IN /\ call' = [reg |-> "vision-artist", tool |-> step.tool,
                        args |-> step.args, env |-> env]
            /\ out' = Returned(t.result, t.calls)
            /\ execRuns' = execRuns + (IF t.ran THEN 1 ELSE 0)
            /\ facadeCalls' = facadeCalls \o t.calls
            /\ transcript' = transcript \o t.lines
            /\ idx' = idx + 1
  /\ UNCHANGED <<script, pc, input, batch, chunks, modelCalls, exitCode, history, promises>>

VaTestDone ==
  /\ script = "vision-artist" /\ pc = "testing" /\ idx > Len(VaTestPlan(input[1]))
  /\ Exit(0)
  /\ UNCHANGED <<script, call, out, input, batch, chunks, idx, transcript, modelCalls,
                 execRuns, facadeCalls, history, promises>>

(***************************************************************************)
(* The interactive ai-agent: main() and the commands object.               *)
(***************************************************************************)
\* characters to string
RECURSIVE Str(_)
Str(m) == IF m = <<>> THEN "" ELSE Head(m) \o Str(Tail(m))

\* m.split(' '): every single space separates, so an empty line gives one
\* empty word and two spaces in a row give an empty word between them.
RECURSIVE Split(_, _)
Split(m, acc) ==
  IF m = <<>> THEN <<Str(acc)>>
  ELSE IF Head(m) = " " THEN <<Str(acc)>> \o Split(Tail(m), <<>>)
  ELSE Split(Tail(m), Append(acc, Head(m)))

\* const [cmd, ...args] = command.trim().split(' ')
Words(line) == Split(Trim(line), <<>>)

AiCommandLines ==
  { <<>>,
    <<" ", " ">>,
    <<"e", "x", "i", "t">>,
    <<"E", "X", "I", "T">>,
    <<" ", "h", "e", "l", "p", " ">>,
    <<"s", "c", "r", "e", "e", "n", "s", "h", "o", "t">>,
    <<"c", "l", "i", "c", "k">>,
    <<"c", "l", "i", "c", "k", " ", "n", "a", "m", "e", ":", "S", "e", "v", "e", "n">>,
    <<"c", "l", "i", "c", "k", " ", " ", "n", "a", "m", "e", ":", "S", "e", "v", "e", "n">>,
    <<"f", "i", "n", "d">>,
    <<"f", "i", "n", "d", " ", "r", "o", "l", "e", ":", "b", "u", "t", "t", "o", "n">>,
    <<"a", "p", "p">>,
    <<"a", "p", "p", " ", "b", "o", "g", "u", "s">>,
    <<"a", "p", "p", " ", "l", "i", "s", "t">>,
    <<"a", "p", "p", " ", "l", "a", "u", "n", "c", "h">>,
    <<"a", "p", "p", " ", "l", "a", "u", "n", "c", "h", " ", "c", "a", "l", "c">>,
    <<"a", "p", "p", " ", "f", "o", "c", "u", "s", " ", "c", "a", "l", "c">>,
    <<"o", "c", "r">>,
    <<"o", "c", "r", " ", "s", "h", "o", "t", ".", "p", "n", "g">>,
    <<"t", "y", "p", "e">>,
    <<"t", "y", "p", "e", " ", "h", "e", "l", "l", "o", " ", "w", "o", "r", "l", "d">>,
    <<"c", "a", "l", "c">>,
    <<"c", "a", "l", "c", " ", "2", "+", "2">>,
    <<"c", "a", "l", "c", " ", "1", "5", " ", "*", " ", "4", "2", " ", "+", " ", "8">>,
    <<"c", "a", "l", "c", " ", "2", "+">>,
    <<"f", "i", "l", "e", "s">>,
    <<"w", "e", "b">>,
    <<"w", "e", "b", " ", "h", "t", "t", "p", "s", ":", "/", "/", "e", "x", "a", "m", "p", "l", "e", ".", "c", "o", "m">>,
    <<"r", "u", "n">>,
    <<"r", "u", "n", " ", "l", "s">>,
    <<"t", "h", "i", "n", "k">>,
    <<"t", "h", "i", "n", "k", " ", "w", "h", "y">>,
    <<"h", "i", "s", "t", "o", "r", "y">>,
    <<"c", "l", "e", "a", "r">>,
    <<"c", "h", "a", "t">>,
    <<"c", "o", "n", "s", "t", "r", "u", "c", "t", "o", "r">>,
    <<"t", "o", "S", "t", "r", "i", "n", "g">>,
    <<"_", "_", "p", "r", "o", "t", "o", "_", "_">>,
    <<"b", "o", "g", "u", "s">> }

AiChatMessages ==
  { <<"b", "a", "c", "k">>,
    <<"B", "a", "c", "k">>,
    <<>>,
    <<" ">>,
    <<"h", "i">>,
    <<"c", "l", "i", "c", "k", " ", "s", "e", "v", "e", "n">> }

AiCommandNames ==
  {"help", "screenshot", "click", "find", "app", "ocr", "type", "calc", "files",
   "web", "run", "think", "history", "clear", "chat"}

AiToolCommands == {"screenshot", "click", "find", "app", "ocr", "type", "calc", "files", "web", "run"}

\* the i-th argument a handler receives; a missing one is undefined, which
\* the handlers only test for truthiness
Arg(args, i) == IF Len(args) >= i THEN args[i] ELSE ""

AiCommandTool(cmd) ==
  CASE cmd = "screenshot" -> "screenshot"
    [] cmd = "click" -> "clickElement"
    [] cmd = "find" -> "findElements"
    [] cmd = "app" -> "appControl"
    [] cmd = "ocr" -> "ocrTool"
    [] cmd = "type" -> "textInput"
    [] cmd = "calc" -> "calculator"
    [] cmd = "files" -> "fileManager"
    [] cmd = "web" -> "webTool"
    [] cmd = "run" -> "commandRunner"

\* the argument object a handler passes to execute
AiCommandArgs(cmd, args, isWindows) ==
  LET a == Arg(args, 1) IN
  CASE cmd = "screenshot" -> [withOCR |-> TRUE]
    [] cmd = "click" -> [selector |-> a]
    [] cmd = "find" -> [selector |-> a]
    [] cmd = "app" -> [action |-> a, appName |-> Arg(args, 2)]
    [] cmd = "ocr" -> [imagePath |-> a]
    [] cmd = "type" -> [text |-> a]
    [] cmd = "calc" -> [expression |-> a]
    [] cmd = "files" -> [action |-> "list"]
    [] cmd = "web" -> [action |-> "open", url |-> a]
    [] cmd = "run" -> IF isWindows THEN [windowsCommand |-> a] ELSE [unixCommand |-> a]

\* the handlers that return early on a falsy first argument, and what they print
AiMissingText(cmd) ==
  CASE cmd \in {"click", "find"} -> "Please specify a selector"
    [] cmd = "app" -> "Please specify action: launch, list, focus, or activate"
    [] cmd = "type" -> "Please provide text to type"
    [] cmd = "calc" -> "Please provide a mathematical expression"
    [] cmd = "web" -> "Please provide a URL to open"
    [] cmd = "run" -> "Please provide a command to run"
    [] cmd = "think" -> "Please provide a question to think about"

AiChecksFirstArg(cmd) == cmd \in {"click", "find", "app", "type", "calc", "web", "run", "think"}

\* what a tool command prints for the result of execute
AiDisplayLines(cmd, args, r) ==
  IF Truthy(r, "error") THEN <<Line("err", 1, r.error)>>
  ELSE CASE cmd = "screenshot" ->
              <<Line("ok", 1, "Screenshot taken (" \o r.size \o ")")>>
                \o (IF Truthy(r, "ocrText")
                    THEN <<Line("ocr", 1, "OCR extracted " \o ToString(r.textLength)
                                            \o " characters")>>
                    ELSE <<>>)
         [] cmd = "find" ->
              <<Line("ok", 1, "Found " \o ToString(r.count) \o " elements (showing "
                                \o ToString(r.returned) \o "):")>>
                \o [i \in 1..Len(r.elements) |-> Line("element", 1, r.elements[i].name)]
         [] cmd = "app" /\ Arg(args, 1) = "list" ->
              <<Line("ok", 1, "Found " \o ToString(r.count) \o " applications:")>>
                \o [i \in 1..Len(r.applications) |-> Line("element", 1, r.applications[i].name)]
         [] cmd = "ocr" ->
              <<Line("ok", 1, "OCR completed on " \o r.source), Line("text", 1, r.text)>>
         [] cmd = "calc" ->
              <<Line("ok", 1, r.expression \o " = " \o r.result)>>
                \o (IF Truthy(r, "appDemo") THEN <<Line("app", 1, r.appDemo)>> ELSE <<>>)
         [] cmd = "run" ->
              <<Line("ok", 1, "Command executed (exit code: " \o ToString(r.exitStatus) \o ")")>>
                \o (IF Truthy(r, "stdout") THEN <<Line("output", 1, r.stdout)>> ELSE <<>>)
                \o (IF Truthy(r, "stderr") THEN <<Line("stderr", 1, r.stderr)>> ELSE <<>>)
         [] OTHER -> <<Line("ok", 1, r.message)>>

\* The facade behaviours a command of the loop is run against: nothing fails,
\* or one operation does.
AiCommandEnvs(tool) ==
  LET fails == {{}} \cup {{op} : op \in AiAgentOps(tool)}
  IN IF tool = "commandRunner"
     THEN {Env(f, x, x, IF x = 0 THEN "out" ELSE "", IF x = 0 THEN "" ELSE "warn") :
             f \in fails, x \in {0, 1}}
     ELSE {Env(f, n, 0, "", "") : f \in fails,
                                 n \in (IF tool \in {"findElements", "appControl", "fileManager"}
                                        THEN {0, 2} ELSE {0})}

\* main(): the availability check of the model before the loop
AiStartup ==
  /\ script = "ai-agent" /\ pc = "startup"
  /\ \/ /\ transcript' = <<Line("ready", 0, "DeepSeek-R1:1.5B is ready!")>>
        /\ pc' = "handled" /\ UNCHANGED <<exitCode, promises>>
     \/ /\ transcript' = <<Line("setup", 0, "DeepSeek-R1:1.5B not available")>>
        /\ Exit(1)
  /\ modelCalls' = 1
  /\ UNCHANGED <<script, call, out, input, batch, chunks, idx, execRuns, facadeCalls,
                 history, promises>>

\* The handler has returned and the loop comes round: an empty line, then
\* inquirer.prompt is awaited.  What is observed of a command starts afresh.
AiPrompt ==
  /\ script = "ai-agent" /\ pc = "handled"
  /\ pc' = "menu"
  /\ input' = <<>> /\ transcript' = <<>>
  /\ call' = None /\ out' = None /\ execRuns' = 0 /\ facadeCalls' = <<>> /\ modelCalls' = 0
  /\ batch' = <<>> /\ chunks' = 0 /\ idx' = 0
  /\ UNCHANGED <<script, exitCode, history, promises>>

\* What one pass of the main loop does with a command line that is not
\* "chat": the words, the lookup  commands[cmd]  and the handler it calls.
AiReadCommand ==
  /\ script = "ai-agent" /\ pc = "menu"
  /\ \E line \in AiCommandLines :
       LET words == Words(line)
           cmd == words[1]
           args == Tail(words)
           found == PropLookup(AiCommandNames, cmd)
           quiet == /\ call' = None /\ out' = None /\ execRuns' = 0 /\ facadeCalls' = <<>>
                    /\ modelCalls' = 0
       IN /\ input' = words
          /\ cmd # "chat"
          /\ CASE cmd = "exit" ->
                    /\ transcript' = <<Line("bye", 0, "Goodbye! Thanks for using the AI Agent!")>>
                    /\ Exit(0) /\ quiet /\ UNCHANGED <<history, promises>>
               [] cmd # "exit" /\ found.kind = "undefined" ->
                    /\ transcript' = IF cmd # ""
                                     THEN <<Line("unknown", 0, "Unknown command: " \o cmd)>>
                                     ELSE <<>>
                    /\ quiet /\ pc' = "handled" /\ UNCHANGED <<exitCode, history, promises>>
               [] found.kind = "function" ->
                    \* an inherited method is called with the arguments; it prints nothing
                    /\ transcript' = <<>>
                    /\ call' = [reg |-> "Object.prototype", tool |-> cmd,
                                args |-> NoArgs, env |-> Env({}, 0, 0, "", "")]
                    /\ out' = None /\ execRuns' = 0 /\ facadeCalls' = <<>> /\ modelCalls' = 0
                    /\ pc' = "handled" /\ UNCHANGED <<exitCode, history, promises>>
               [] found.kind = "object" ->
                    \* commands[cmd] is truthy but not callable: main() rejects
                    /\ transcript' = <<Line("fatal", 0, "commands[cmd] is not a function")>>
                    /\ Exit(1) /\ quiet /\ UNCHANGED <<history, promises>>
               [] found.kind = "own" /\ cmd = "help" ->
                    /\ transcript' = <<Line("help", 0, "Available Commands:")>>
                    /\ quiet /\ pc' = "handled" /\ UNCHANGED <<exitCode, history, promises>>
               [] found.kind = "own" /\ cmd = "history" ->
                    /\ transcript' =
                         IF history = <<>>
                         THEN <<Line("history", 0, "No conversation history yet")>>
                         ELSE <<Line("history", 0, "Conversation History:")>>
                                \o [i \in 1..Len(history) |-> Line("entry", i, history[i].type)]
                    /\ quiet /\ pc' = "handled" /\ UNCHANGED <<exitCode, history, promises>>
               [] found.kind = "own" /\ cmd = "clear" ->
                    /\ history' = <<>>
                    /\ transcript' = <<Line("ok", 0, "Conversation history cleared")>>
                    /\ quiet /\ pc' = "handled" /\ UNCHANGED <<exitCode, promises>>
               [] found.kind = "own" /\ AiChecksFirstArg(cmd) /\ Arg(args, 1) = "" ->
                    /\ transcript' = <<Line("invalid", 0, AiMissingText(cmd))>>
                    /\ quiet /\ pc' = "handled" /\ UNCHANGED <<exitCode, history, promises>>
               [] found.kind = "own" /\ cmd = "think" /\ Arg(args, 1) # "" ->
                    /\ Len(history) < MaxHistory
                    /\ call' = None /\ out' = None /\ execRuns' = 0 /\ facadeCalls' = <<>>
                    /\ modelCalls' = 1
                    /\ \/ /\ transcript' = <<Line("thought", 0, "Deep Reasoning Result:")>>
                          /\ history' = Append(history,
                                               [type |-> "thinking", question |-> Arg(args, 1),
                                                response |-> "answer"])
                       \/ /\ transcript' = <<Line("error", 0, ModelMessage)>>
                          /\ UNCHANGED <<history, promises>>
                    /\ pc' = "handled" /\ UNCHANGED <<exitCode, promises>>
               [] /\ found.kind = "own" /\ cmd \in AiToolCommands
                  /\ ~(AiChecksFirstArg(cmd) /\ Arg(args, 1) = "") ->
                    \E isWindows \in (IF cmd = "run" THEN BOOLEAN ELSE {FALSE}) :
                    \E env \in AiCommandEnvs(AiCommandTool(cmd)) :
                      LET a == AiCommandArgs(cmd, args, isWindows)
                          o == AiAgentExecute(AiCommandTool(cmd), a, env)
                      IN /\ call' = [reg |-> "ai-agent", tool |-> AiCommandTool(cmd),
                                     args |-> a, env |-> env]
                         /\ out' = o
                         /\ execRuns' = 1
                         /\ facadeCalls' = o.calls
                         /\ modelCalls' = 0
                         /\ IF cmd = "files"
                            THEN \* no check of result.error: result.files.forEach throws
                                 IF Has(o.result, "files")
                                 THEN /\ transcript' =
                                           <<Line("ok", 1, "Files in " \o o.result.directory \o ":")>>
                                             \o [i \in 1..Len(o.result.files) |->
                                                   Line("file", 1, o.result.files[i])]
                                      /\ pc' = "handled" /\ UNCHANGED <<exitCode, promises>>
                                 ELSE /\ transcript' =
                                           <<Line("ok", 1, "Files in undefined:"),
                                             Line("fatal", 0, "Cannot read properties of undefined")>>
                                      /\ Exit(1)
                            ELSE /\ transcript' = AiDisplayLines(cmd, args, o.result)
                                 /\ pc' = "handled" /\ UNCHANGED <<exitCode, promises>>
                         /\ UNCHANGED <<history, promises>>
  /\ batch' = <<>> /\ chunks' = 0 /\ idx' = 0
  /\ UNCHANGED <<script, promises>>

\* 'chat': the banner of the chat mode, then its own prompt
AiEnterChat ==
  /\ script = "ai-agent" /\ pc = "menu"
  /\ input' = <<"chat">>
  /\ transcript' = <<Line("chat", 0, "Interactive Chat Mode with Desktop Automation")>>
  /\ pc' = "chatPrompt"
  /\ call' = None /\ out' = None /\ execRuns' = 0 /\ facadeCalls' = <<>> /\ modelCalls' = 0
  /\ batch' = <<>> /\ chunks' = 0 /\ idx' = 0
  /\ UNCHANGED <<script, exitCode, history, promises>>

\* one message at the chat prompt, up to the await of streamText
AiChatMessage ==
  /\ script = "ai-agent" /\ pc = "chatPrompt"
  /\ \E m \in AiChatMessages :
       /\ input' = m
       /\ IF ToLowerCase(m) = <<"b", "a", "c", "k">>
          THEN /\ pc' = "handled" /\ transcript' = <<>> /\ modelCalls' = 0
          ELSE IF Trim(m) = <<>>
          THEN /\ transcript' = <<>> /\ modelCalls' = 0 /\ UNCHANGED <<pc, promises>>
          ELSE /\ Len(history) < MaxHistory
               /\ transcript' = <<Line("ai", 0, "AI: ")>>
               /\ modelCalls' = 1
               /\ pc' = "calling"
  /\ batch' = <<>> /\ chunks' = 0 /\ idx' = 0
  /\ UNCHANGED <<script, call, out, execRuns, facadeCalls, exitCode, history, promises>>

\* process.on('SIGINT'): goodbye and exit 0, wherever the agent is
AiSigInt ==
  /\ script = "ai-agent" /\ pc # "exited"
  /\ transcript' = Append(transcript, Line("bye", 0, "Goodbye! Thanks for using the AI Agent!"))
  /\ Exit(0)
  /\ UNCHANGED <<script, call, out, input, batch, chunks, idx, modelCalls, execRuns,
                 facadeCalls, history, promises>>

(***************************************************************************)
(* element-explorer: the OCR test at the end of exploreElements.  The OCR  *)
(* promise races a 10 second timer; the continuation of the await runs in  *)
(* the same task as the settlement that decides the race.                  *)
(***************************************************************************)
\* Lengths of the text the OCR engine can recognise.
OcrLengths == {0, 5, 150}
PreviewLimit == 100

\* string.substring(0, limit).length for a string of len characters
JsSubstringLen(len, limit) == Min(len, limit)

\* Promise who settles: Promise.race follows the first settlement (first
\* records whose it was) and no later one; a rejection nobody subscribed to
\* is an unhandled rejection.
Settle(p, who, to) ==
  [p EXCEPT ![who] = to,
            !.race = IF p.race = "pending" THEN to ELSE @,
            !.first = IF p.race = "pending" THEN who ELSE @,
            !.unhandled = IF to = "rejected" /\ who \notin p.handled
                          THEN @ \cup {who} ELSE @]

\* What runs after the inner try/catch: the closing line.
ExCompleted == <<Line("completed", 0, "Element exploration completed!")>>

\* captureScreen, then ocrScreenshot and the timer are started and
\* Promise.race subscribes to both; a throwing captureScreen goes
\* straight to the catch and no promise exists.
ExStartOcrTest ==
  /\ script = "element-explorer" /\ pc = "start"
  /\ \E ok \in BOOLEAN :
       IF ok
       THEN /\ transcript' = <<Line("ocr-taking", 0, "Taking screenshot for OCR...")>>
            /\ facadeCalls' = <<"captureScreen", "ocrScreenshot">>
            /\ promises' = [ocr |-> "pending", timeout |-> "pending", race |-> "pending",
                            first |-> "none",
                            handled |-> {"ocr", "timeout"}, unhandled |-> {}]
            /\ pc' = "awaitRace"
       ELSE /\ transcript' = <<Line("ocr-failed", 0, "OCR failed or timed out: "
                                       \o FacadeMessage("captureScreen"))>>
                               \o ExCompleted
            /\ facadeCalls' = <<"captureScreen">>
            /\ pc' = "completed"
            /\ UNCHANGED promises
  /\ UNCHANGED <<script, call, out, input, batch, chunks, idx, modelCalls, execRuns,
                 exitCode, history>>

\* The OCR promise settles.  When the race is still open the await resumes:
\* the preview on fulfilment, the catch on rejection, then the closing line.
ExOcrSettles ==
  /\ script = "element-explorer" /\ promises.ocr = "pending"
  /\ \/ \E len \in OcrLengths :
          /\ promises' = Settle(promises, "ocr", "fulfilled")
          /\ IF promises.race = "pending"
             THEN /\ transcript' = transcript
                       \o <<Line("ocr-preview", JsSubstringLen(len, PreviewLimit),
                                 "OCR result preview")>>
                       \o ExCompleted
                  /\ pc' = "completed"
             ELSE UNCHANGED <<transcript, pc>>
     \/ /\ promises' = Settle(promises, "ocr", "rejected")
        /\ IF promises.race = "pending"
           THEN /\ transcript' = transcript
                     \o <<Line("ocr-failed", 0, "OCR failed or timed out: "
                                 \o FacadeMessage("ocrScreenshot"))>>
                     \o ExCompleted
                /\ pc' = "completed"
           ELSE UNCHANGED <<transcript, pc>>
  /\ UNCHANGED <<script, call, out, input, batch, chunks, idx, modelCalls, execRuns,
                 facadeCalls, exitCode, history>>

\* A timer that also reports when the race is already decided.
ExTimeoutFiresReports ==
  /\ script = "element-explorer" /\ promises.timeout = "pending"
  /\ promises' = Settle(promises, "timeout", "rejected")
  /\ transcript' = transcript
       \o <<Line("ocr-failed", 0, "OCR failed or timed out: OCR timeout")>>
       \o ExCompleted
  /\ pc' = "completed"
  /\ UNCHANGED <<script, call, out, input, batch, chunks, idx, modelCalls, execRuns,
                 facadeCalls, exitCode, history>>

\* The 10 second timer fires and rejects its promise; it is never cleared,
\* so it fires whether or not the race is already decided.
ExTimeoutFires ==
  /\ script = "element-explorer" /\ promises.timeout = "pending"
  /\ promises' = Settle(promises, "timeout", "rejected")
  /\ IF promises.race = "pending"
     THEN /\ transcript' = transcript
               \o <<Line("ocr-failed", 0, "OCR failed or timed out: OCR timeout")>>
               \o ExCompleted
          /\ pc' = "completed"
     ELSE UNCHANGED <<transcript, pc>>
  /\ UNCHANGED <<script, call, out, input, batch, chunks, idx, modelCalls, execRuns,
                 facadeCalls, exitCode, history>>

\* Nothing is left on the event loop: the process ends with status 0.
ExExit ==
  /\ script = "element-explorer" /\ pc = "completed"
  /\ promises.ocr # "pending" /\ promises.timeout # "pending"
  /\ Exit(0)
  /\ UNCHANGED <<script, call, out, input, batch, chunks, idx, transcript, modelCalls,
                 execRuns, facadeCalls, history, promises>>

(***************************************************************************)
(* drawConnectedPoints called on its own, on every short point sequence    *)
(* and against every way the mouse operations can fail.  Coordinates are   *)
(* in half units so that Math.round has something to round.                *)
(***************************************************************************)
MaxPoints == 4

PointCoords == {<<2, 2>>, <<3, 5>>}

\* Math.round of h/2
RoundHalf(h) == (h + 1) \div 2

\* The operations of the gesture with their coordinates: the press and the
\* moves go to the rounded points in order, the release takes none.
Gesture(points) ==
  [i \in 1..Len(GestureOps(Len(points))) |->
     [op |-> GestureOps(Len(points))[i],
      at |-> IF i <= Len(points)
             THEN <<RoundHalf(points[i][1]), RoundHalf(points[i][2])>>
             ELSE <<>>]]

InitGesture == script = "gesture" /\ pc = "ready" /\ Idle

DrawPoints ==
  /\ script = "gesture" /\ pc = "ready"
  /\ \E points \in SeqsUpTo(PointCoords, MaxPoints) :
     \E fail \in SUBSET {"mouseClickAndHold", "mouseMove", "mouseRelease"} :
       LET done == DrawConnectedPoints(Len(points), fail)
       IN /\ call' = [reg |-> "vision-artist", tool |-> "drawConnectedPoints",
                      args |-> [points |-> points], env |-> Env(fail, 0, 0, "", "")]
          /\ facadeCalls' = SubSeq(Gesture(points), 1, Len(done))
          /\ transcript' = IF done # <<>> /\ done[Len(done)] \in fail
                           THEN <<Line("log", 0, "Drawing points: "
                                                   \o FacadeMessage(done[Len(done)]))>>
                           ELSE <<>>
  /\ pc' = "returned"
  /\ UNCHANGED <<script, out, input, batch, chunks, idx, modelCalls, execRuns, exitCode,
                 history, promises>>

\* The points each generator pushes for a shape centred at (x, y), written
\* as the terms of its formula: a polar point is x + (num/den) cos(deg),
\* y + (num/den) sin(deg); an offset point is x + dx * size/2 and
\* y + dy * size/2 (square) or y + dy * height/2 (triangle); a heart point
\* is the heart curve at deg scaled by num/den.
ShapePoints(shape, x, y, size) ==
  LET P(f, num, den, deg) == [x |-> x, y |-> y, f |-> f, num |-> num, den |-> den, deg |-> deg]
      square == <<<<-1, -1>>, <<1, -1>>, <<1, 1>>, <<-1, 1>>, <<-1, -1>>>>
      triangle == <<<<0, -1>>, <<-1, 1>>, <<1, 1>>, <<0, -1>>>>
  IN [k \in 1..ShapePointCount(shape) |->
        CASE shape = "circle" -> P("polar", size, 1, 10 * (k - 1))
          [] shape = "star" ->
               P("polar", size, IF (k - 1) % 2 = 0 THEN 1 ELSE 2, 36 * (k - 1) - 90)
          [] shape = "spiral" -> P("polar", 15 * (k - 1) * size, 720, 15 * (k - 1))
          [] shape = "heart" -> P("heart", size, 20, 10 * (k - 1))
          [] shape = "square" -> P("offset", square[k], 2, 0)
          [] shape = "triangle" -> P("height", triangle[k], 2, 0)]

MaxDrawings == 2

\* A generator that goes on filling the array of the previous drawing.
DrawGeneratedShapeLeftover ==
  /\ script = "gesture" /\ pc \in {"ready", "generated"} /\ Len(batch) < MaxDrawings
  /\ \E shape \in Shapes \ {"line"} : \E size \in {60, 80} : \E fail \in {{}, {"mouseMove"}} :
       LET points == (IF batch = <<>> THEN <<>> ELSE batch[Len(batch)].points)
                       \o ShapePoints(shape, 400, 300, size)
           done == DrawConnectedPoints(Len(points), fail)
       IN batch' = Append(batch,
                          [shape |-> shape, x |-> 400, y |-> 300, size |-> size,
                           fail |-> fail, points |-> points,
                           calls |-> [i \in 1..Len(done) |->
                                        [op |-> done[i],
                                         at |-> IF i <= Len(points)
                                                THEN [round |-> points[i]] ELSE None]]])
  /\ pc' = "generated"
  /\ UNCHANGED <<script, call, out, input, chunks, idx, transcript, modelCalls, execRuns,
                 facadeCalls, exitCode, history, promises>>

\* One of drawCircle ... drawSpiral is called: it fills a fresh array with
\* its points and hands it to drawConnectedPoints.  batch keeps what each
\* call of the run was given and did.
DrawGeneratedShape ==
  /\ script = "gesture" /\ pc \in {"ready", "generated"} /\ Len(batch) < MaxDrawings
  /\ \E shape \in Shapes \ {"line"} : \E size \in {60, 80} : \E fail \in {{}, {"mouseMove"}} :
       LET points == ShapePoints(shape, 400, 300, size)
           done == DrawConnectedPoints(Len(points), fail)
       IN batch' = Append(batch,
                          [shape |-> shape, x |-> 400, y |-> 300, size |-> size,
                           fail |-> fail, points |-> points,
                           calls |-> [i \in 1..Len(done) |->
                                        [op |-> done[i],
                                         at |-> IF i <= Len(points)
                                                THEN [round |-> points[i]] ELSE None]]])
  /\ pc' = "generated"
  /\ UNCHANGED <<script, call, out, input, chunks, idx, transcript, modelCalls, execRuns,
                 facadeCalls, exitCode, history, promises>>

NextGesture == DrawPoints \/ DrawGeneratedShape

SpecGesture == InitGesture /\ [][NextGesture]_vars

(***************************************************************************)
(* working-artist.js: createArt.  Each helper (openPaint, drawSomething,   *)
(* takeScreenshot, analyzeArtwork) catches its own errors and answers with *)
(* false or null; the facade decides which of them fail.                   *)
(***************************************************************************)
WaSteps ==
  {"openPaint", "stroke1", "stroke2", "stroke3", "stroke4", "takeScreenshot",
   "analyzeArtwork"}

\* The command of the process runs to its end: without a command the usage
\* is printed; circle and line draw one stroke and star four, of which only
\* the first is assigned to drawn.
WaCreateArt ==
  /\ script = "working-artist" /\ pc = "start"
  /\ \E fail \in SUBSET WaSteps :
       LET Step(name) == [step |-> name, ok |-> name \notin fail]
           strokes == IF input = <<"star">> THEN 4 ELSE 1
           paintOpened == "openPaint" \notin fail
           drawn == "stroke1" \notin fail
           filename == "takeScreenshot" \notin fail
       IN IF input = <<>>
          THEN /\ facadeCalls' = <<>>
               /\ transcript' = <<Line("usage", 0, "Commands:")>>
          ELSE /\ facadeCalls' =
                    <<Step("openPaint")>>
                    \o (IF paintOpened
                        THEN [k \in 1..strokes |-> Step("stroke" \o ToString(k))]
                        ELSE <<>>)
                    \o (IF paintOpened /\ drawn THEN <<Step("takeScreenshot")>> ELSE <<>>)
                    \o (IF paintOpened /\ drawn /\ filename
                        THEN <<Step("analyzeArtwork")>> ELSE <<>>)
               /\ transcript' = IF paintOpened /\ drawn /\ filename
                                THEN <<Line("complete", 0, "Artwork creation complete!")>>
                                ELSE <<>>
  /\ Exit(0)
  /\ UNCHANGED <<script, call, out, input, batch, chunks, idx, modelCalls, execRuns,
                 history, promises>>

(***************************************************************************)
(* The programs: which script runs is fixed when the process starts, and   *)
(* so is its command line.                                                 *)
(***************************************************************************)
Scripts ==
  {"simple-agent", "test-agent", "simple-vision", "vision-artist", "ai-agent",
   "element-explorer", "working-artist"}

Init ==
  /\ script \in Scripts
  /\ pc = (CASE script = "simple-agent" -> "prompt"
             [] script = "ai-agent" -> "startup"
             [] OTHER -> "start")
  /\ input \in (CASE script = "test-agent" -> TestAgentArgvs
                  [] script = "simple-vision" -> SimpleVisionArgvs
                  [] script = "vision-artist" -> VisionArtistArgvs
                  [] script = "working-artist" -> {<<>>, <<"circle">>, <<"star">>, <<"line">>}
                  [] OTHER -> {<<>>})
  /\ call = None /\ out = None
  /\ batch = <<>> /\ chunks = 0 /\ idx = 0
  /\ transcript = <<>> /\ modelCalls = 0 /\ execRuns = 0 /\ facadeCalls = <<>>
  /\ exitCode = -1 /\ history = <<>> /\ promises = NoPromises

Turn ==
  \/ StreamTextReturns
  \/ StreamChunk
  \/ StreamEnd
  \/ ReportResult
  \/ FinishTurn
  \/ TurnThrows

Next ==
  \/ ReadMessage
  \/ Turn
  \/ TaUsage \/ TaExecuteCommand \/ TaDisplay
  \/ SvUsage \/ SvCommand \/ SvTestStep \/ SvTestDone
  \/ VaUsage \/ VaRunCommand \/ VaTestTool \/ VaTestDone
  \/ AiStartup \/ AiPrompt \/ AiReadCommand \/ AiEnterChat \/ AiChatMessage \/ AiSigInt
  \/ ExStartOcrTest \/ ExOcrSettles \/ ExTimeoutFires \/ ExExit
  \/ WaCreateArt

Spec == Init /\ [][Next]_vars

\* Every step of a turn is the program's own; only the prompts wait on the
\* user, so only the turn is given fairness.  A timer that was set fires;
\* the OCR engine may never answer.
FairSpec == Spec /\ WF_vars(Turn) /\ WF_vars(ExTimeoutFires)

(***************************************************************************)
(* Result contract of the registries.                                      *)
(***************************************************************************)
\* The facade operations that failed during the invocation under way.
FailedOps == {out.calls[i] : i \in {j \in 1..Len(out.calls) : out.calls[j] \in call.env.fail}}

\* Sub-steps whose failure the tool itself swallows.
SwallowedOps(reg, tool) ==
  CASE reg = "vision-artist" /\ tool = "setupBrush" -> {"clickBrush", "clickBrushTool"}
    [] reg = "vision-artist" /\ tool = "drawShape" ->
         {"locatorCanvas", "locatorMSPaintView",
          "mouseClickAndHold", "mouseMove", "mouseRelease"}
    [] reg = "vision-artist" /\ tool = "analyzeArtwork" -> {"generateText"}
    [] reg = "ai-agent" /\ tool = "calculator" -> {"openApplication", "elementProps"}
    [] OTHER -> {}

FlaggedFailure(r) == Has(r, "success") /\ r.success = FALSE /\ Has(r, "error")
FlaggedSuccess(r) == Has(r, "success") /\ r.success = TRUE

\* C1 as stated: execute returns, and a failed facade call always gives
\* success=false with an error string.
C1_FacadeFailureIsFlagged ==
  call # None =>
    /\ ~out.threw
    /\ FailedOps # {} => FlaggedFailure(out.result)

\* C1 as amended: no exception leaves execute and no failed operation is
\* attempted twice; a failed facade call that the tool does not swallow gives
\* a failure result (success=false + error, or in the ai-agent an error
\* field without success field); when every failed call is a swallowed
\* sub-step the tool reports success.
C1_FacadeFailureContract ==
  call # None =>
    LET r == out.result
        hard == FailedOps \ SwallowedOps(call.reg, call.tool)
    IN /\ ~out.threw
       /\ \A i, j \in 1..Len(out.calls) :
            (out.calls[i] \in call.env.fail /\ out.calls[i] = out.calls[j]) => i = j
       /\ hard # {} =>
            IF call.reg = "ai-agent"
            THEN Has(r, "error") /\ ~Has(r, "success")
            ELSE FlaggedFailure(r)
       /\ (FailedOps # {} /\ hard = {}) =>
            IF call.reg = "ai-agent"
            THEN ~Has(r, "error") /\ ~Has(r, "success")
            ELSE FlaggedSuccess(r)

C1_Witness ==
  /\ call # None
  /\ call.reg = "vision-artist" /\ call.tool = "setupBrush"
  /\ FailedOps = {"clickBrush", "clickBrushTool"}
  /\ FlaggedSuccess(out.result)

\* C2 as stated: exactly one side of every result is populated.
C2_ExactlyOneSide ==
  call # None =>
    LET r == out.result
    IN /\ Has(r, "success")
       /\ r.success = TRUE => (Has(r, "message") /\ ~Has(r, "error"))
       /\ r.success = FALSE => (Has(r, "error") /\ ~Has(r, "message"))

\* C2 as amended: in the registries that flag their results, success=false
\* comes with error and without message, success=true comes with message and
\* without error except for runCommand (error = stderr); the ai-agent's
\* results have no success field, and there an error field never comes with
\* message or status.
C2_ResultShape ==
  call # None =>
    LET r == out.result
    IN IF call.reg = "ai-agent"
       THEN /\ ~Has(r, "success")
            /\ Has(r, "error") => (~Has(r, "message") /\ ~Has(r, "status"))
       ELSE /\ Has(r, "success")
            /\ r.success = FALSE => (Has(r, "error") /\ ~Has(r, "message"))
            /\ r.success = TRUE =>
                 /\ Has(r, "message")
                 /\ Has(r, "error") <=> call.tool = "runCommand"

C2_Witness ==
  /\ call # None
  /\ call.reg = "test-agent" /\ call.tool = "runCommand"
  /\ out.result.success = TRUE
  /\ out.result.error = "warn"

(***************************************************************************)
(* The dispatch turn.                                                      *)
(***************************************************************************)
\* The scripts whose tool results carry the success flag.
FlaggedScripts == {"simple-agent", "test-agent", "simple-vision", "vision-artist"}

\* The first line printed for each tool result, in the order printed.
IsHead(l) == l.tag \in {"ok", "err", "tool"} /\ l.i >= 1
Heads == SelectSeq(transcript, IsHead)

\* The first line the loop over response.toolCalls prints for batch[j].
ExpectedHead(j) ==
  LET r == batch[j].result
  IN IF script = "ai-agent" THEN Line("tool", j, batch[j].tool)
     ELSE IF r.success THEN Line("ok", j, r.message)
     ELSE Line("err", j, r.error)

\* The turn has ended normally: the loop over the results ran to its end.
TurnDone ==
  /\ IF transcript # <<>> THEN transcript[Len(transcript)].tag = "end" ELSE FALSE
  /\ \/ script = "simple-agent" /\ pc = "prompt"
     \/ script = "ai-agent" /\ pc = "chatPrompt"
     \/ script \in {"test-agent", "simple-vision", "vision-artist"}
          /\ pc = "exited" /\ exitCode = 0

FailedAt(i) ==
  IF script \in FlaggedScripts /\ pc = "reporting" /\ idx = i /\ i <= Len(batch)
  THEN batch[i].result.success = FALSE
  ELSE FALSE

\* The i-th result printed is the error of batch[i].
ErrorShown(i) ==
  IF i <= Len(batch) /\ i <= Len(Heads) /\ Has(batch[i].result, "error")
  THEN Heads[i] = Line("err", i, batch[i].result.error)
  ELSE FALSE

AllReported ==
  IF Len(Heads) = Len(batch)
  THEN \A j \in 1..Len(batch) : Heads[j] = ExpectedHead(j)
  ELSE FALSE

\* C3: once the loop over the results reaches a result with success=false,
\* the turn still ends normally, with the error of that result displayed and
\* every result of the batch reported.
C3_FailedResultDoesNotAbort ==
  \A i \in 1..MaxBatch :
    FailedAt(i) ~> (TurnDone /\ AllReported /\ ErrorShown(i))

C3_Witness ==
  /\ script = "simple-agent" /\ TurnDone
  /\ Len(batch) = 2
  /\ batch[1].result.success = FALSE /\ batch[2].result.success = TRUE
  /\ Heads = <<Line("err", 1, batch[1].result.error), Line("ok", 2, batch[2].result.message)>>

QuitWords == {<<"q", "u", "i", "t">>, <<"e", "x", "i", "t">>}

\* C7: in the simple-agent, a turn under way always comes back to the
\* prompt; a message that is empty or only white space starts no model call
\* and leaves the loop at the prompt; and the loop ends exactly on a message
\* that is quit or exit in any letter case.
C7_ChatLoop ==
  /\ (script = "simple-agent" /\ pc \in {"calling", "streaming", "reporting"})
       ~> (pc = "prompt")
  /\ [][(script = "simple-agent" /\ pc = "prompt") =>
          /\ Trim(input') = <<>> => (pc' = "prompt" /\ modelCalls' = 0)
          /\ pc' = "exited" <=> ToLowerCase(input') \in QuitWords]_vars
  /\ [][(script = "simple-agent" /\ pc' = "exited") =>
          (pc = "prompt" /\ ToLowerCase(input') \in QuitWords /\ exitCode' = 0)]_vars

C7_Witness ==
  /\ script = "simple-agent" /\ pc = "prompt"
  /\ transcript # <<>> /\ transcript[Len(transcript)].tag = "error"
  /\ modelCalls = 1

(***************************************************************************)
(* Lookup by name.                                                         *)
(***************************************************************************)
\* C8 as stated: a command word that is not a declared command (and is not
\* exit or empty) gets the unknown-command report and nothing is invoked.
C8_UndeclaredNameIsUnknown ==
  [][(script = "ai-agent" /\ pc = "menu" /\ input' # <<>>
        /\ input'[1] \notin AiCommandNames \cup {"exit", ""}) =>
       /\ transcript' = <<Line("unknown", 0, "Unknown command: " \o input'[1])>>
       /\ call' = None
       /\ pc' = "handled"]_vars

(***************************************************************************)
(* Arguments and exit codes of the command front ends.                     *)
(***************************************************************************)
\* The command just run was given arguments its tool's schema rejects: the
\* required first argument is missing, or (ai-agent app) the action is not
\* one of the enumerated ones.
TaViolatesSchema ==
  /\ script = "test-agent" /\ input # <<>>
  /\ input[1] \in {"click", "find", "open", "type", "calc", "run", "chat"}
  /\ (Len(input) < 2 \/ input[2] = "")

AiMissingArgument ==
  /\ script = "ai-agent" /\ pc = "handled" /\ input # <<>>
  /\ input[1] \in AiCommandNames /\ AiChecksFirstArg(input[1])
  /\ Arg(Tail(input), 1) = ""

AiActionOutsideEnum ==
  /\ script = "ai-agent" /\ pc = "handled" /\ input # <<>>
  /\ input[1] = "app"
  /\ Arg(Tail(input), 1) \notin {"", "launch", "list", "focus", "activate"}

Rejected ==
  /\ \E k \in 1..Len(transcript) : transcript[k].tag = "invalid"
  /\ execRuns = 0 /\ facadeCalls = <<>> /\ modelCalls = 0

\* C9 as stated: arguments that violate the schema are rejected with an
\* invalid-arguments report, no execute function runs, no facade call is made.
C9_SchemaViolationRejected ==
  /\ (TaViolatesSchema /\ pc # "start") => Rejected
  /\ (AiMissingArgument \/ AiActionOutsideEnum) => Rejected

\* C9 as amended: a command without its required argument is rejected by the
\* front end, which prints the missing-argument message, runs no execute
\* function and makes no facade or model call (the test-agent then exits
\* with 1, the ai-agent goes back to its prompt); an action outside the
\* enumeration (ai-agent app) does reach appControl.execute, which makes no
\* facade call and returns the error "Invalid action", which is printed.
C9_MissingArgumentRejected ==
  /\ (TaViolatesSchema /\ pc # "start") =>
       (Rejected /\ pc = "exited" /\ exitCode = 1)
  /\ AiMissingArgument => Rejected
  /\ AiActionOutsideEnum =>
       /\ execRuns = 1 /\ facadeCalls = <<>>
       /\ out.result = [error |-> "Invalid action"]
       /\ transcript = <<Line("err", 1, "Invalid action")>>

C9_Witness ==
  /\ script = "test-agent" /\ pc = "exited"
  /\ input = <<"click", "">>
  /\ Rejected

\* C10 as stated: a command-line script that has ended exits with 1 when it
\* reported invalid arguments or a caught error, and with 0 otherwise.
C10_ExitCodes ==
  (script \in {"test-agent", "simple-vision", "vision-artist"} /\ pc = "exited") =>
    LET bad == \E k \in 1..Len(transcript) :
                 transcript[k].tag \in {"invalid", "error", "fatal", "exec-failed"}
        failed == script = "test-agent"
                    /\ \E k \in 1..Len(transcript) : transcript[k].tag = "err"
    IN exitCode = IF bad \/ (failed /\ ~TurnDone) THEN 1 ELSE 0

(***************************************************************************)
(* test-agent.js: the direct commands.                                     *)
(***************************************************************************)
\* A direct command of the test-agent has run its tool and the process has ended.
TaRan(tool) ==
  IF script = "test-agent" /\ pc = "exited" /\ call # None
  THEN call.tool = tool
  ELSE FALSE

CalcFailure == [success |-> FALSE, error |-> "Invalid mathematical expression"]

CalcSuccess(e, v) == [success |-> TRUE, result |-> v, message |-> e \o " = " \o v]

TaFailed ==
  IF script = "test-agent" /\ pc = "exited" /\ call # None
  THEN out.result.success = FALSE
  ELSE FALSE

\* C12 as stated: the error of a failed direct command is the message of a
\* failed facade call, it is printed, and the exit code is 1.
C12_FailureIsFacadeMessage ==
  TaFailed =>
    /\ \E op \in call.env.fail : out.result.error = FacadeMessage(op)
    /\ transcript = <<Line("err", 1, out.result.error)>>
    /\ exitCode = 1

\* C12 as amended: a failed direct command prints the error of its result
\* and exits with code 1; the error is the message of the facade call that
\* failed (the last one attempted), except for calc, which calls no facade
\* and carries the fixed text 'Invalid mathematical expression'.
C12_DirectFailure ==
  TaFailed =>
    /\ transcript = <<Line("err", 1, out.result.error)>>
    /\ exitCode = 1
    /\ IF call.tool = "calculate"
       THEN out.calls = <<>> /\ out.result.error = "Invalid mathematical expression"
       ELSE /\ out.calls # <<>>
            /\ out.calls[Len(out.calls)] \in call.env.fail
            /\ out.result.error = FacadeMessage(out.calls[Len(out.calls)])

C12_Witness ==
  /\ TaFailed
  /\ input = <<"click", "name:DoesNotExist">>
  /\ call.env.fail = {"first"}
  /\ transcript = <<Line("err", 1, "first failed")>>
  /\ exitCode = 1

\* The facade answers the search of a find command with no element.
TaFoundNothing ==
  IF TaRan("findElements")
  THEN call.env.n = 0 /\ "all" \notin call.env.fail
  ELSE FALSE

\* C13: find on a surface where the facade returns no match gives the
\* success result {success:true, count:0, elements:[]} with its message,
\* which is printed, and the exit code is 0.
C13_EmptyMatchIsSuccess ==
  TaFoundNothing =>
    /\ out.result = [success |-> TRUE, count |-> 0, elements |-> <<>>,
                     message |-> "Found 0 elements matching " \o input[2]]
    /\ transcript = <<Line("ok", 1, out.result.message),
                      Line("elements", 1, "Found 0 elements:")>>
    /\ exitCode = 0

C13_Witness ==
  /\ TaFoundNothing
  /\ input = <<"find", "role:Button">>
  /\ out.result.success /\ out.result.count = 0 /\ out.result.elements = <<>>
  /\ exitCode = 0

(***************************************************************************)
(* The interactive agents.                                                 *)
(***************************************************************************)
\* An interactive agent has just started: nothing was read, called or printed.
JustStarted ==
  /\ script \in {"ai-agent", "simple-agent"}
  /\ pc \in {"startup", "prompt"}
  /\ input = <<>> /\ transcript = <<>> /\ modelCalls = 0
  /\ call = None /\ history = <<>>

\* The step is the availability check of the model: one model call, no input
\* read, and either the agent is ready or it prints the setup guidance and
\* exits with code 1.
AvailabilityCheck ==
  /\ modelCalls' = 1 /\ input' = input
  /\ IF transcript' # <<>>
     THEN \/ transcript'[1].tag = "ready" /\ pc' # "exited"
          \/ transcript'[1].tag = "setup" /\ pc' = "exited" /\ exitCode' = 1
     ELSE FALSE

\* C14: the first thing an interactive agent does (short of being
\* interrupted) is to check once that the model is available, before any
\* input is read; when the backend is unreachable it prints the setup
\* guidance and exits with code 1 without entering its loop.
C14_AvailabilityCheckedFirst ==
  [][JustStarted => (AiSigInt \/ AvailabilityCheck)]_vars

(***************************************************************************)
(* C15: no retries, one report per failure.                                *)
(***************************************************************************)
Ind(b) == IF b THEN 1 ELSE 0

\* What the catch blocks of the registries put before error.message.
ErrorPrefixes ==
  {"", "Screenshot failed: ", "Click failed: ", "Element discovery failed: ",
   "App control failed: ", "OCR failed: ", "Text input failed: ", "Web tool failed: ",
   "Command execution failed: "}

\* How many times the failure of operation op is shown to the user by the
\* call just made: as the error of the result, as a line logged by the
\* gesture, as the appError of the ai-agent calculator, or inside the
\* fallback text of analyzeArtwork.
ReportCount(op) ==
  LET r == out.result
      logs == Get(out, "logs", <<>>)
  IN Ind(Has(r, "error") /\ \E prefix \in ErrorPrefixes : r.error = prefix \o FacadeMessage(op))
     + Ind(Has(r, "appError"))
     + Ind(Has(r, "analysis") /\ r.analysis = "Vision analysis error: " \o FacadeMessage(op))
     + Cardinality({i \in 1..Len(logs) :
                      \/ logs[i] = "Drawing points: " \o FacadeMessage(op)
                      \/ logs[i] = "Drawing line: " \o FacadeMessage(op)})

AttemptedOnce ==
  \A i, j \in 1..Len(out.calls) :
    (out.calls[i] \in call.env.fail /\ out.calls[i] = out.calls[j]) => i = j

\* Failures that no output of the tool mentions: the brush clicks of
\* setupBrush and the first two canvas locators of drawShape.
Unreported(op) ==
  /\ call.reg = "vision-artist"
  /\ \/ call.tool = "setupBrush"
     \/ call.tool = "drawShape" /\ op \in {"locatorCanvas", "locatorMSPaintView"}

\* C15 as stated: every failing facade or model call is attempted once, its
\* failure is reported to the user exactly once, and control returns to the
\* caller, for all tools including setupBrush and drawConnectedPoints.
C15_FailureReportedExactlyOnce ==
  call # None =>
    /\ ~out.threw
    /\ AttemptedOnce
    /\ \A op \in FailedOps : ReportCount(op) = 1

\* C15 as amended: every failing facade or model call is attempted once and
\* control returns to the caller; its failure is reported exactly once,
\* except that a failing brush click of setupBrush and a failing first or
\* second canvas locator of drawShape are reported nowhere and are followed
\* by one attempt with the next locator.
C15_FailureAttemptedOnce ==
  call # None =>
    /\ ~out.threw
    /\ AttemptedOnce
    /\ \A op \in FailedOps : ReportCount(op) = IF Unreported(op) THEN 0 ELSE 1
    /\ (call.reg = "vision-artist" /\ call.tool = "setupBrush"
        /\ "clickBrush" \in call.env.fail) => out.calls = <<"clickBrush", "clickBrushTool">>

\* A star whose second mouse operation throws: the gesture stops there and
\* logs the failure once.
C15_Witness ==
  /\ call # None
  /\ call.reg = "vision-artist" /\ call.tool = "drawShape" /\ call.args.shape = "star"
  /\ call.env.fail = {"mouseMove"}
  /\ out.calls = <<"locatorCanvas", "mouseClickAndHold", "mouseMove">>
  /\ out.logs = <<"Drawing points: mouseMove failed">>
  /\ out.result.success = TRUE

(***************************************************************************)
(* C16: the OCR race of element-explorer.                                  *)
(***************************************************************************)
ExRaced == script = "element-explorer" /\ promises.race # "none"

Printed(tag) == {i \in 1..Len(transcript) : transcript[i].tag = tag}

Outcomes == Printed("ocr-preview") \cup Printed("ocr-failed")

TimedOutShown ==
  \E i \in Printed("ocr-failed") : transcript[i].text = "OCR failed or timed out: OCR timeout"

OcrErrorShown ==
  \E i \in Printed("ocr-failed") :
    transcript[i].text = "OCR failed or timed out: " \o FacadeMessage("ocrScreenshot")

\* One outcome once the race is decided and none before, the closing line
\* after it, and no unhandled rejection.
ExOneOutcome ==
  ExRaced =>
    /\ promises.race = "pending" => Outcomes = {} /\ Printed("completed") = {}
    /\ promises.race # "pending" =>
         /\ Cardinality(Outcomes) = 1
         /\ Cardinality(Printed("completed")) = 1
         /\ \A i \in Outcomes : \A j \in Printed("completed") : i < j
    /\ promises.unhandled = {}

\* Once the race is decided nothing more is printed.
ExLoserIgnored ==
  [][(ExRaced /\ promises.race # "pending") => transcript' = transcript]_vars

\* The await always ends and the closing line is printed; the timer is not
\* cleared when the OCR wins.
ExReachesEnd == (ExRaced /\ promises.race = "pending") ~> (Printed("completed") # {})

ExTimerNotCancelled == (ExRaced /\ promises.first = "ocr") ~> (promises.timeout = "rejected")

\* C16 as stated: whichever of the OCR operation and the 10 second timeout
\* settles first alone determines the outcome, OCR first printing the text
\* preview and timeout first printing 'OCR failed or timed out'; exactly one
\* outcome is reported, the later settlement is ignored and not cancelled,
\* and 'Element exploration completed' is always reached.
C16_FirstSettledDecides ==
  /\ [](/\ ExOneOutcome
        /\ (ExRaced /\ promises.first = "ocr") => Printed("ocr-preview") # {}
        /\ (ExRaced /\ promises.first = "timeout") => TimedOutShown)
  /\ ExLoserIgnored
  /\ ExReachesEnd
  /\ ExTimerNotCancelled

\* C16 as amended: the OCR operation fulfilling first prints the text
\* preview, the OCR operation rejecting first prints 'OCR failed or timed
\* out' with its own error, and the timeout first prints 'OCR failed or
\* timed out: OCR timeout'; the rest as stated.
C16_FirstSettlementDecides ==
  /\ [](/\ ExOneOutcome
        /\ (ExRaced /\ promises.first = "ocr" /\ promises.race = "fulfilled")
             => Printed("ocr-preview") # {}
        /\ (ExRaced /\ promises.first = "ocr" /\ promises.race = "rejected")
             => OcrErrorShown
        /\ (ExRaced /\ promises.first = "timeout") => TimedOutShown)
  /\ ExLoserIgnored
  /\ ExReachesEnd
  /\ ExTimerNotCancelled

\* The OCR answered first with a long text; the timer fired afterwards and
\* nothing was added to the output.
C16_Witness ==
  /\ script = "element-explorer"
  /\ promises.first = "ocr" /\ promises.ocr = "fulfilled" /\ promises.timeout = "rejected"
  /\ transcript = <<Line("ocr-taking", 0, "Taking screenshot for OCR..."),
                    Line("ocr-preview", PreviewLimit, "OCR result preview")>>
                  \o ExCompleted
  /\ promises.unhandled = {}

(***************************************************************************)
(* C17: tool results and the context of the next chat request.             *)
(***************************************************************************)
\* The result r is carried by some entry of the context ctx.
ResultInContext(r, ctx) ==
  \E k \in 1..Len(ctx) :
    /\ Has(ctx[k], "toolResults")
    /\ \E j \in 1..Len(ctx[k].toolResults) : ctx[k].toolResults[j] = r

\* The step that ends a chat turn of the ai-agent in which tools ran.
ChatTurnWithToolsEnds ==
  /\ script = "ai-agent" /\ pc = "reporting" /\ pc' = "chatPrompt" /\ batch # <<>>

\* C17: every tool result captured in a chat turn of the interactive agent
\* is part of the conversation context sent with the next model request.
C17_ToolResultsInNextContext ==
  [][ChatTurnWithToolsEnds =>
       \A i \in 1..Len(batch) : ResultInContext(batch[i].result, ChatContext(history'))]_vars

(***************************************************************************)
(* C18: the conversation history of the ai-agent.                          *)
(***************************************************************************)
AiIssued(cmd) ==
  /\ script = "ai-agent" /\ pc = "menu" /\ pc' = "handled"
  /\ IF Len(input') > 0 THEN input'[1] = cmd ELSE FALSE

ChatTurnCompletes == script = "ai-agent" /\ pc = "reporting" /\ pc' = "chatPrompt"

ChatTurnThrows ==
  script = "ai-agent" /\ pc \in {"calling", "streaming"} /\ pc' = "chatPrompt"

ThinkSucceeds ==
  /\ AiIssued("think")
  /\ IF Len(transcript') > 0 THEN transcript'[1].tag = "thought" ELSE FALSE

ThinkFails ==
  /\ AiIssued("think")
  /\ IF Len(transcript') > 0 THEN transcript'[1].tag # "thought" ELSE TRUE

\* C18: the history grows by exactly one entry, at its end, with each chat
\* turn that completes and each think that succeeds; a throwing turn or a
\* failing think adds none; clear empties it; no other step touches it;
\* history reports that there is none exactly when it is empty, and lists
\* the entries in order otherwise.
C18_HistoryTracksSuccesses ==
  [][script = "ai-agent" =>
       /\ ChatTurnCompletes =>
            /\ Len(history') = Len(history) + 1
            /\ SubSeq(history', 1, Len(history)) = history
            /\ history'[Len(history')].type = "chat"
            /\ history'[Len(history')].user = input
       /\ ThinkSucceeds =>
            /\ Len(history') = Len(history) + 1
            /\ SubSeq(history', 1, Len(history)) = history
            /\ history'[Len(history')].type = "thinking"
       /\ (ChatTurnThrows \/ ThinkFails) => history' = history
       /\ AiIssued("clear") => history' = <<>>
       /\ ~(ChatTurnCompletes \/ ThinkSucceeds \/ AiIssued("clear")) => history' = history
       /\ AiIssued("history") =>
            IF history = <<>>
            THEN transcript' = <<Line("history", 0, "No conversation history yet")>>
            ELSE /\ Len(transcript') = Len(history) + 1
                 /\ \A i \in 1..Len(history) :
                      transcript'[i + 1] = Line("entry", i, history[i].type)]_vars

\* A completed chat turn followed by a successful think: two entries in
\* that order.
C18_Witness ==
  /\ script = "ai-agent" /\ pc = "handled"
  /\ Len(history) = 2
  /\ history[1].type = "chat" /\ history[2].type = "thinking"

(***************************************************************************)
(* C19: the argument of calc, type and run in the ai-agent's command loop. *)
(***************************************************************************)
AiRan(cmd) ==
  IF script = "ai-agent" /\ pc = "handled" /\ call # None /\ Len(input) > 1
  THEN input[1] = cmd /\ call.reg = "ai-agent"
  ELSE FALSE

\* The one text argument the tool was given.
AiTextArgument ==
  CASE call.tool = "calculator" -> call.args.expression
    [] call.tool = "textInput" -> call.args.text
    [] call.tool = "commandRunner" ->
         IF Has(call.args, "windowsCommand") THEN call.args.windowsCommand
         ELSE call.args.unixCommand

\* C19: calc, type and run of the ai-agent hand the whole text after the
\* command word to their tool, so that `calc 15 * 42 + 8` reports
\* `15 * 42 + 8 = 638`.
C19_WholeArgument ==
  /\ \A cmd \in {"calc", "type", "run"} :
       AiRan(cmd) => AiTextArgument = Join(Tail(input), " ")
  /\ (AiRan("calc") /\ input = <<"calc", "15", "*", "42", "+", "8">>)
       => transcript = <<Line("ok", 1, "15 * 42 + 8 = 638")>>

(***************************************************************************)
(* C20: drawConnectedPoints as one drag gesture.                           *)
(***************************************************************************)
Drew == script = "gesture" /\ pc = "returned"

DrawnPoints == call.args.points

Rounded(p) == <<RoundHalf(p[1]), RoundHalf(p[2])>>

\* Press at p[0], one move to each later point in order, one release last.
FullGesture ==
  LET n == Len(DrawnPoints) IN
  /\ Len(facadeCalls) = n + 1
  /\ facadeCalls[1] = [op |-> "mouseClickAndHold", at |-> Rounded(DrawnPoints[1])]
  /\ \A i \in 2..n : facadeCalls[i] = [op |-> "mouseMove", at |-> Rounded(DrawnPoints[i])]
  /\ facadeCalls[n + 1].op = "mouseRelease"
  /\ Cardinality({i \in 1..Len(facadeCalls) : facadeCalls[i].op = "mouseClickAndHold"}) = 1
  /\ Cardinality({i \in 1..Len(facadeCalls) : facadeCalls[i].op = "mouseRelease"}) = 1

\* The operation of the gesture that throws first, if one does.
Thrower ==
  {i \in 1..Len(facadeCalls) : facadeCalls[i].op \in call.env.fail}

DrewShape ==
  call # None /\ call.reg = "vision-artist" /\ call.tool = "drawShape"

MouseOps == {"mouseClickAndHold", "mouseMove", "mouseRelease"}

\* The mouse operations drawShape attempted, in order.
MouseCalls == SelectSeq(out.calls, LAMBDA op : op \in MouseOps)

\* The whole gesture of the requested shape.
WholeGesture ==
  IF call.args.shape = "line" THEN <<"mouseClickAndHold", "mouseMove", "mouseRelease">>
  ELSE GestureOps(ShapePointCount(call.args.shape))

\* C22: drawShape returns success=true only if the press, every move and the
\* release of the requested shape were all performed and succeeded; a
\* failing mouse call gives success=false.
C22_SuccessMeansDrawn ==
  DrewShape =>
    /\ out.result.success = TRUE =>
         MouseCalls = WholeGesture /\ FailedOps \cap MouseOps = {}
    /\ FailedOps \cap MouseOps # {} => out.result.success = FALSE

(***************************************************************************)
(* C23: a press is always followed by a release.                           *)
(***************************************************************************)
\* C23: every mouse press of drawConnectedPoints is followed by a mouse
\* release before the function returns, also when a move fails part-way;
\* the button is never left held.
C23_PressIsReleased ==
  Drew =>
    \A i \in 1..Len(facadeCalls) :
      (facadeCalls[i].op = "mouseClickAndHold" /\ "mouseClickAndHold" \notin call.env.fail) =>
        \E j \in (i + 1)..Len(facadeCalls) :
          facadeCalls[j].op = "mouseRelease"

(***************************************************************************)
(* C27: setupBrush and its optional brush selection.                       *)
(***************************************************************************)
SetUpBrush ==
  call # None /\ call.reg = "vision-artist" /\ call.tool = "setupBrush"

\* C27: setupBrush clicks the second selector only if the click on the
\* first failed, swallows both failures, and returns success=true with the
\* requested size and colour whatever the clicks did.
C27_BrushSelectionIsOptional ==
  SetUpBrush =>
    /\ ~out.threw
    /\ out.calls = (IF "clickBrush" \in call.env.fail
                    THEN <<"clickBrush", "clickBrushTool">> ELSE <<"clickBrush">>)
    /\ FlaggedSuccess(out.result) /\ ~Has(out.result, "error")
    /\ out.result.settings = [size |-> Get(call.args, "size", "medium"),
                              color |-> Get(call.args, "color", "black")]

\* The first click fails, the second succeeds; a red brush was asked for.
C27_Witness ==
  /\ SetUpBrush
  /\ call.env.fail = {"clickBrush"}
  /\ call.args = [size |-> "medium", color |-> "red"]
  /\ out.calls = <<"clickBrush", "clickBrushTool">>
  /\ out.result.success = TRUE
  /\ out.result.settings.color = "red"

(***************************************************************************)
(* C28: analyzeArtwork when the vision model fails.                        *)
(***************************************************************************)
AnalyzedArtwork ==
  call # None /\ call.reg = "vision-artist" /\ call.tool = "analyzeArtwork"

\* C28: a failing vision model call gives success=true with the 'technical
\* mode' analysis that embeds the model's error; success=false arises only
\* when no capture exists or reading the directory or the file fails.
C28_VisionFailureIsSuccess ==
  AnalyzedArtwork =>
    LET r == out.result
        unreadable == \/ "readdir" \in call.env.fail
                      \/ call.env.n = 0
                      \/ "readFile" \in call.env.fail
    IN /\ ~out.threw
       /\ r.success = FALSE <=> unreadable
       /\ (~unreadable /\ "generateText" \in call.env.fail) =>
            /\ r.success = TRUE
            /\ r.message = "Artwork analysis completed (technical mode)"
            /\ r.analysis = "Vision analysis error: " \o FacadeMessage("generateText")
       /\ (~unreadable /\ "generateText" \notin call.env.fail) =>
            r.message = "Artwork analysis completed"
       /\ ("readdir" \notin call.env.fail /\ call.env.n = 0) =>
            r.error = "No artwork captures found. Use captureArtwork first."

\* A capture exists and can be read, the vision model fails.
C28_Witness ==
  /\ AnalyzedArtwork
  /\ call.env.n = 1 /\ call.env.fail = {"generateText"}
  /\ out.calls = <<"readdir", "readFile", "generateText">>
  /\ out.result.success = TRUE
  /\ out.result.message = "Artwork analysis completed (technical mode)"

(***************************************************************************)
(* C29: how many element details findElements returns.                     *)
(***************************************************************************)
FoundElements ==
  call # None /\ call.tool = "findElements" /\ FailedOps = {}

\* C29: findElements of the ai-agent returns exactly min(count, limit)
\* element details, count being the number of matches, for every numeric
\* limit (10 when omitted); in test-agent and simple-agent it returns
\* min(count, 5) details with count the total.
C29_ReturnedIsMinOfCountAndLimit ==
  FoundElements =>
    LET r == out.result IN
    IF call.reg = "ai-agent"
    THEN /\ r.count = call.env.n
         /\ r.returned = Min(r.count, Get(call.args, "limit", DefaultLimit))
         /\ Len(r.elements) = r.returned
    ELSE /\ r.count = call.env.n
         /\ Len(r.elements) = Min(r.count, SliceLimit)

(***************************************************************************)
(* C25: direct commands of the ai-agent never end the process.             *)
(***************************************************************************)
DirectCommands ==
  {"help", "screenshot", "click", "find", "app", "ocr", "type", "calc", "files", "web",
   "run", "think", "history", "clear"}

\* The loop reads a line whose command word is cmd.
AiReads(cmd) ==
  /\ script = "ai-agent" /\ pc = "menu" /\ input # input'
  /\ IF Len(input') > 0 THEN input'[1] = cmd ELSE FALSE

\* C25: whatever its tool or model call does, a direct command of the
\* ai-agent prints its outcome and the loop prompts again; the process ends
\* only through exit, an interrupt or the start-up check.
C25_DirectCommandKeepsLoop ==
  [][\A cmd \in DirectCommands : AiReads(cmd) => (pc' = "handled" /\ exitCode' = -1)]_vars

(***************************************************************************)
(* C24: the steps of working-artist's createArt gate each other.           *)
(***************************************************************************)
WaRan == script = "working-artist" /\ pc = "exited" /\ input # <<>>

WaDid(name) == \E i \in 1..Len(facadeCalls) : facadeCalls[i].step = name

WaSucceeded(name) ==
  \E i \in 1..Len(facadeCalls) : facadeCalls[i].step = name /\ facadeCalls[i].ok

WaStrokes ==
  IF input = <<"star">> THEN {"stroke1", "stroke2", "stroke3", "stroke4"} ELSE {"stroke1"}

\* C24: drawing starts only if Paint opened; the screenshot is taken and
\* analysed only if every stroke of the requested shape succeeded; once a
\* step has failed every later step is skipped.
C24_StepsGateEachOther ==
  WaRan =>
    /\ (\E st \in WaStrokes : WaDid(st)) => WaSucceeded("openPaint")
    /\ WaDid("takeScreenshot") => \A st \in WaStrokes : WaSucceeded(st)
    /\ WaDid("analyzeArtwork") => WaSucceeded("takeScreenshot")
    /\ \A i \in 1..Len(facadeCalls) : ~facadeCalls[i].ok => i = Len(facadeCalls)

(***************************************************************************)
(* C21: the shape generators are pure.                                     *)
(***************************************************************************)
SameArguments(a, b) ==
  a.shape = b.shape /\ a.x = b.x /\ a.y = b.y /\ a.size = b.size

Analysed == script = "tools" /\ pc = "analysed"

\* The captures that wrote a file the tool of this analysis looks for.
OwnCaptures ==
  {i \in 1..Len(input) :
     /\ input[i].ok
     /\ (input[i].by = "simple-vision") = (out.tool = "analyzeScreenshot")}

\* C26: an analyse tool answers success=false with its 'none found' error
\* when no capture file of its kind exists, and otherwise analyses the file
\* that the most recent successful capture wrote.
C26_AnalysesMostRecentCapture ==
  Analysed =>
    IF OwnCaptures = {}
    THEN /\ ~out.success
         /\ out.error \in {"No screenshots found. Take a screenshot first.",
                           "No artwork captures found. Use captureArtwork first."}
    ELSE /\ out.success
         /\ out.file = input[CHOOSE i \in OwnCaptures : \A j \in OwnCaptures : j <= i].filename

====
